---- MODULE Spec2Model ----
(***************************************************************************)
(* A model of the diff / match / patch algorithms of diff-match-patch-cpp. *)
(*                                                                         *)
(* Texts are sequences of character codes (code points).  A diff is a      *)
(* record [operation, text]; a patch is a record [diffs, start1, start2,   *)
(* length1, length2].  Positions are 0-based as in the source; the k-th    *)
(* character of a text t (0-based) is t[k + 1].                            *)
(***************************************************************************)
EXTENDS Integers, Sequences, FiniteSets, TLC

(***************************************************************************)
(* Bounds of the model.                                                    *)
(***************************************************************************)
MaxLen == 3

(***************************************************************************)
(* Character constants and classes.                                        *)
(***************************************************************************)
NPOS == -1
eol == 10
ret == 13
tab == 9

DELETE == "DELETE"
INSERT == "INSERT"
EQUAL == "EQUAL"
Operation == {DELETE, INSERT, EQUAL}

diff_t(operation, text) == [operation |-> operation, text |-> text]

min(v1, v2) == IF v1 < v2 THEN v1 ELSE v2
max(v1, v2) == IF v1 > v2 THEN v1 ELSE v2

SetMin(S) == CHOOSE x \in S : \A y \in S : x <= y
SetMax(S) == CHOOSE x \in S : \A y \in S : x >= y

\* The element of a one-element set.  the({e : x \in {v}}) is e with x
\* standing for the value v, which is computed once.
the(S) == CHOOSE x \in S : TRUE

isDigit(chr) == chr >= 48 /\ chr <= 57
isAlpha(chr) == (chr >= 97 /\ chr <= 122) \/ (chr >= 65 /\ chr <= 90)
isAlphaNum(chr) == isDigit(chr) \/ isAlpha(chr)
isControl(chr) == chr \in {13, 10}
isSpace(ch) == ch \in {32, 9, 10, 11, 12, 13}

(***************************************************************************)
(* String primitives (std::basic_string semantics behind string_wrapper).  *)
(***************************************************************************)
substring(s, pos, len) == SubSeq(s, pos + 1, min(pos + len, Len(s)))
substringFrom(s, pos) == SubSeq(s, pos + 1, Len(s))

indexOf(s, needle, start) ==
    LET n == Len(needle)
        found == {i \in start..(Len(s) - n) : SubSeq(s, i + 1, i + n) = needle}
    IN  IF start < 0 \/ found = {} THEN NPOS ELSE SetMin(found)

lastIndexOf(s, needle, start) ==
    LET n == Len(needle)
        found == {i \in 0..min(start, Len(s) - n) : SubSeq(s, i + 1, i + n) = needle}
    IN  IF found = {} THEN NPOS ELSE SetMax(found)

startsWith(s, substr) ==
    Len(s) >= Len(substr) /\ substring(s, 0, Len(substr)) = substr

endsWith(s, substr) ==
    Len(s) >= Len(substr) /\ substring(s, Len(s) - Len(substr), Len(substr)) = substr

\* splice_base + splice_set: replace `remove` elements at `start` by `ins`.
splice(list, start, remove, ins) ==
    IF start > Len(list) THEN list
    ELSE LET r == IF start + remove > Len(list) THEN Len(list) - start ELSE remove
         IN  SubSeq(list, 1, start) \o ins \o SubSeq(list, start + r + 1, Len(list))

str_insert(str, pos, toAppend) == splice(str, pos, 0, toAppend)
\* str_remove returns the clamped count it removed, except that when the
\* clamped count is 0 it returns removeLength itself; the caller shortens
\* its view by the returned count.
str_remove(str, pos, removeLength) ==
    IF pos > Len(str) THEN str
    ELSE IF (IF pos + removeLength > Len(str) THEN Len(str) - pos ELSE removeLength) # 0
         THEN splice(str, pos, removeLength, <<>>)
         ELSE substring(str, 0, Len(str) - removeLength)

(***************************************************************************)
(* diff_match_patch_common                                                 *)
(***************************************************************************)
diff_commonPrefix(text1, text2) ==
    LET n == min(Len(text1), Len(text2))
        mism == {i \in 0..(n - 1) : text1[i + 1] # text2[i + 1]}
    IN  IF mism = {} THEN n ELSE SetMin(mism)

diff_commonSuffix(text1, text2) ==
    LET n == min(Len(text1), Len(text2))
        mism == {i \in 1..n : text1[Len(text1) - i + 1] # text2[Len(text2) - i + 1]}
    IN  IF mism = {} THEN n ELSE SetMin(mism) - 1

RECURSIVE commonOverlapLoop(_, _, _, _, _)
commonOverlapLoop(text1, text2, text_length, best, length) ==
    LET pattern == substringFrom(text1, text_length - length)
        found == indexOf(text2, pattern, 0)
    IN  IF found = NPOS THEN best
        ELSE LET l2 == length + found
             IN  IF found = 0 \/ substringFrom(text1, text_length - l2) = substring(text2, 0, l2)
                 THEN commonOverlapLoop(text1, text2, text_length, l2, l2 + 1)
                 ELSE commonOverlapLoop(text1, text2, text_length, best, l2)

diff_commonOverlap(text1, text2) ==
    LET text1_length == Len(text1)
        text2_length == Len(text2)
        t1 == IF text1_length > text2_length
              THEN substringFrom(text1, text1_length - text2_length) ELSE text1
        t2 == IF text1_length < text2_length
              THEN substring(text2, 0, text1_length) ELSE text2
        text_length == min(text1_length, text2_length)
    IN  IF text1_length = 0 \/ text2_length = 0 THEN 0
        ELSE IF t1 = t2 THEN text_length
        ELSE commonOverlapLoop(t1, t2, text_length, 0, 1)

RECURSIVE diff_text1(_)
diff_text1(diffs) ==
    IF diffs = <<>> THEN <<>>
    ELSE (IF Head(diffs).operation # INSERT THEN Head(diffs).text ELSE <<>>)
         \o diff_text1(Tail(diffs))

RECURSIVE diff_text2(_)
diff_text2(diffs) ==
    IF diffs = <<>> THEN <<>>
    ELSE (IF Head(diffs).operation # DELETE THEN Head(diffs).text ELSE <<>>)
         \o diff_text2(Tail(diffs))

\* A faulty diff_levenshtein: an EQUAL resets the counts of the run before it
\* without adding them.
RECURSIVE levenshteinDropsRun(_, _, _, _)
levenshteinDropsRun(diffs, levenshtein, insertions, deletions) ==
    IF diffs = <<>> THEN levenshtein + max(insertions, deletions)
    ELSE LET d == Head(diffs)
         IN  CASE d.operation = INSERT ->
                    levenshteinDropsRun(Tail(diffs), levenshtein, insertions + Len(d.text), deletions)
               [] d.operation = DELETE ->
                    levenshteinDropsRun(Tail(diffs), levenshtein, insertions, deletions + Len(d.text))
               [] OTHER ->
                    levenshteinDropsRun(Tail(diffs), levenshtein, 0, 0)

RECURSIVE levenshteinLoop(_, _, _, _)
levenshteinLoop(diffs, levenshtein, insertions, deletions) ==
    IF diffs = <<>> THEN levenshtein + max(insertions, deletions)
    ELSE LET d == Head(diffs)
         IN  CASE d.operation = INSERT ->
                    levenshteinLoop(Tail(diffs), levenshtein, insertions + Len(d.text), deletions)
               [] d.operation = DELETE ->
                    levenshteinLoop(Tail(diffs), levenshtein, insertions, deletions + Len(d.text))
               [] OTHER ->
                    levenshteinLoop(Tail(diffs), levenshtein + max(insertions, deletions), 0, 0)

diff_levenshtein(diffs) == levenshteinLoop(diffs, 0, 0, 0)

(***************************************************************************)
(* diff_cleanupMerge                                                       *)
(***************************************************************************)
\* A faulty Operation::EQUAL case: the collected run is replaced by the merged
\* edits without factoring out their common prefix and suffix.
cleanupMergeEqualWhole(st) ==
    LET diffs == st.diffs
        p == st.pointer
        n == st.count_delete + st.count_insert
        reset(ds, ptr) == [diffs |-> ds, pointer |-> ptr, count_delete |-> 0,
                           count_insert |-> 0, text_delete |-> <<>>, text_insert |-> <<>>]
        merged == (IF Len(st.text_delete) # 0 THEN <<diff_t(DELETE, st.text_delete)>> ELSE <<>>)
                  \o (IF Len(st.text_insert) # 0 THEN <<diff_t(INSERT, st.text_insert)>> ELSE <<>>)
    IN  IF n > 1
        THEN reset(splice(diffs, p - n, n, merged), p - n + Len(merged) + 1)
        ELSE IF p # 0 /\ diffs[p].operation = EQUAL
             THEN reset(splice([diffs EXCEPT ![p].text = @ \o diffs[p + 1].text], p, 1, <<>>), p)
             ELSE reset(diffs, p + 1)

\* The Operation::EQUAL case of the first pass: factor out common prefix
\* and suffix of the collected run, replace the run by the merged edits,
\* or merge this equality with the previous one.
cleanupMergeEqual(st) ==
    LET diffs == st.diffs
        p == st.pointer
        cd == st.count_delete
        ci == st.count_insert
        td == st.text_delete
        ti == st.text_insert
        both == cd # 0 /\ ci # 0
        hasPrev == (p - cd - ci) > 0 /\ diffs[p - cd - ci].operation = EQUAL
        reset(ds, ptr) == [diffs |-> ds, pointer |-> ptr, count_delete |-> 0,
                           count_insert |-> 0, text_delete |-> <<>>, text_insert |-> <<>>]
        \* The run with the common prefix cl1 and the common suffix cl2 factored out.
        factored(cl1, cl2) ==
            LET diffsA == IF cl1 = 0 THEN diffs
                          ELSE IF hasPrev
                               THEN [diffs EXCEPT ![p - cd - ci].text = @ \o substring(ti, 0, cl1)]
                               ELSE <<diff_t(EQUAL, substring(ti, 0, cl1))>> \o diffs
                pA == IF cl1 # 0 /\ ~hasPrev THEN p + 1 ELSE p
                tiA == substringFrom(ti, cl1)
                tdA == substringFrom(td, cl1)
                diffsB == IF cl2 = 0 THEN diffsA
                          ELSE [diffsA EXCEPT ![pA + 1].text = substringFrom(tiA, Len(tiA) - cl2) \o @]
                tiB == substring(tiA, 0, Len(tiA) - cl2)
                tdB == substring(tdA, 0, Len(tdA) - cl2)
                pC == pA - (cd + ci)
                merged == (IF Len(tdB) # 0 THEN <<diff_t(DELETE, tdB)>> ELSE <<>>)
                          \o (IF Len(tiB) # 0 THEN <<diff_t(INSERT, tiB)>> ELSE <<>>)
            IN  reset(splice(diffsB, pC, cd + ci, merged), pC + Len(merged) + 1)
    IN  IF cd + ci > 1
        THEN the({the({factored(cl1, cl2) :
                       cl2 \in {IF both THEN diff_commonSuffix(substringFrom(ti, cl1),
                                                              substringFrom(td, cl1))
                                ELSE 0}}) :
                  cl1 \in {IF both THEN diff_commonPrefix(ti, td) ELSE 0}})
        ELSE IF p # 0 /\ diffs[p].operation = EQUAL
             THEN reset(splice([diffs EXCEPT ![p].text = @ \o diffs[p + 1].text], p, 1, <<>>), p)
             ELSE reset(diffs, p + 1)

RECURSIVE cleanupMergePass1(_)
cleanupMergePass1(st) ==
    IF ~(st.pointer < Len(st.diffs)) THEN st.diffs
    ELSE LET d == st.diffs[st.pointer + 1]
         IN  CASE d.operation = INSERT ->
                    cleanupMergePass1([st EXCEPT !.count_insert = @ + 1,
                                                 !.text_insert = @ \o d.text,
                                                 !.pointer = @ + 1])
               [] d.operation = DELETE ->
                    cleanupMergePass1([st EXCEPT !.count_delete = @ + 1,
                                                 !.text_delete = @ \o d.text,
                                                 !.pointer = @ + 1])
               [] OTHER -> cleanupMergePass1(cleanupMergeEqual(st))

\* First pass including the dummy entry added before and removed after it.
cleanupMergeFirst(diffs) ==
    the({IF Len(r[Len(r)].text) = 0 THEN SubSeq(r, 1, Len(r) - 1) ELSE r :
         r \in {cleanupMergePass1([diffs |-> Append(diffs, diff_t(EQUAL, <<>>)), pointer |-> 0,
                                   count_delete |-> 0, count_insert |-> 0,
                                   text_delete |-> <<>>, text_insert |-> <<>>])}})

\* One step of the second pass at `pointer` (a single edit between equalities).
cleanupMergeShift(diffs, pointer) ==
    LET prev == diffs[pointer]
        cur == diffs[pointer + 1]
        next == diffs[pointer + 2]
    IN  IF prev.operation = EQUAL /\ next.operation = EQUAL
        THEN IF endsWith(cur.text, prev.text)
             THEN [diffs |-> splice([diffs EXCEPT
                                       ![pointer + 1].text =
                                           prev.text \o substring(cur.text, 0, Len(cur.text) - Len(prev.text)),
                                       ![pointer + 2].text = prev.text \o next.text],
                                    pointer - 1, 1, <<>>),
                   changes |-> TRUE]
             ELSE IF startsWith(cur.text, next.text)
                  THEN [diffs |-> splice([diffs EXCEPT
                                            ![pointer].text = prev.text \o next.text,
                                            ![pointer + 1].text =
                                                substringFrom(cur.text, Len(next.text)) \o next.text],
                                         pointer + 1, 1, <<>>),
                        changes |-> TRUE]
                  ELSE [diffs |-> diffs, changes |-> FALSE]
        ELSE [diffs |-> diffs, changes |-> FALSE]

RECURSIVE cleanupMergePass2(_, _, _)
cleanupMergePass2(diffs, pointer, changes) ==
    IF ~(pointer < Len(diffs) - 1) THEN [diffs |-> diffs, changes |-> changes]
    ELSE the({cleanupMergePass2(r.diffs, pointer + 1, changes \/ r.changes) :
              r \in {cleanupMergeShift(diffs, pointer)}})

\* The second pass compares `pointer < diffs.size() - 1` in size_t: when the
\* first pass leaves the list empty the bound wraps and diffs[0] is read.
cleanupMergeWraps(diffs) == Len(diffs) > 0 /\ Len(cleanupMergeFirst(diffs)) = 0

RECURSIVE diff_cleanupMerge(_)
diff_cleanupMerge(diffs) ==
    IF Len(diffs) <= 0 THEN diffs
    ELSE the({IF r.changes THEN diff_cleanupMerge(r.diffs) ELSE r.diffs :
              r \in {cleanupMergePass2(cleanupMergeFirst(diffs), 1, FALSE)}})

\* Whether a call, or one of the calls it makes on itself after a shift,
\* runs the second pass with the wrapped bound.
RECURSIVE cleanupMergeCrashes(_)
cleanupMergeCrashes(diffs) ==
    IF Len(diffs) <= 0 THEN FALSE
    ELSE IF cleanupMergeWraps(diffs) THEN TRUE
    ELSE the({r.changes /\ cleanupMergeCrashes(r.diffs) :
              r \in {cleanupMergePass2(cleanupMergeFirst(diffs), 1, FALSE)}})

(***************************************************************************)
(* Deadline.  A clock value is the number of hitDeadline() calls that still *)
(* answer false; system time only moves forward, so once a call answers    *)
(* true every later one does.  NoDeadline is the default-constructed clock *)
(* (Diff_Timeout <= 0), which never hits.                                  *)
(***************************************************************************)
NoDeadline == -1
hitDeadline(clk) == clk = 0
tick(clk) == IF clk > 0 THEN clk - 1 ELSE clk

(***************************************************************************)
(* diff_halfMatch                                                          *)
(***************************************************************************)
HalfMatchResult(la, lb, sa, sb, common) ==
    [best_longtext_a |-> la, best_longtext_b |-> lb,
     best_shorttext_a |-> sa, best_shorttext_b |-> sb, best_common |-> common]

RECURSIVE halfMatchILoop(_, _, _, _, _)
halfMatchILoop(hm, longtext, shorttext, i, j) ==
    IF ~(j = NPOS \/ j < Len(shorttext)) THEN hm
    ELSE the({IF j2 = NPOS THEN hm
              ELSE the({halfMatchILoop(
                            IF Len(hm.best_common) < suffixLength + prefixLength
                            THEN HalfMatchResult(
                                     substring(longtext, 0, i - suffixLength),
                                     substringFrom(longtext, i + prefixLength),
                                     substring(shorttext, 0, j2 - suffixLength),
                                     substringFrom(shorttext, j2 + prefixLength),
                                     substring(shorttext, j2 - suffixLength,
                                               suffixLength + prefixLength))
                            ELSE hm,
                            longtext, shorttext, i, j2) :
                        prefixLength \in {diff_commonPrefix(substringFrom(longtext, i),
                                                            substringFrom(shorttext, j2))},
                        suffixLength \in {diff_commonSuffix(substring(longtext, 0, i),
                                                            substring(shorttext, 0, j2))}}) :
              j2 \in {indexOf(shorttext, substring(longtext, i, Len(longtext) \div 4), j + 1)}})

diff_halfMatchI(longtext, shorttext, i) ==
    the({[ok |-> Len(hm.best_common) * 2 >= Len(longtext), hm |-> hm] :
         hm \in {halfMatchILoop(HalfMatchResult(<<>>, <<>>, <<>>, <<>>, <<>>),
                                longtext, shorttext, i, NPOS)}})

diff_halfMatch(settings, text1, text2) ==
    LET longtext == IF Len(text1) > Len(text2) THEN text1 ELSE text2
        shorttext == IF Len(text1) > Len(text2) THEN text2 ELSE text1
    IN  IF settings.Diff_Timeout <= 0 THEN [ok |-> FALSE]
        ELSE IF Len(longtext) < 4 \/ Len(shorttext) * 2 < Len(longtext) THEN [ok |-> FALSE]
        ELSE the({IF ~r1.ok /\ ~r2.ok THEN [ok |-> FALSE]
                  ELSE the({IF Len(text1) > Len(text2) THEN [ok |-> TRUE, hm |-> hm]
                            ELSE [ok |-> TRUE,
                                  hm |-> HalfMatchResult(hm.best_shorttext_a, hm.best_shorttext_b,
                                                         hm.best_longtext_a, hm.best_longtext_b,
                                                         hm.best_common)] :
                            hm \in {IF ~r2.ok THEN r1.hm
                                    ELSE IF ~r1.ok THEN r2.hm
                                    ELSE IF Len(r1.hm.best_common) <= Len(r2.hm.best_common)
                                         THEN r2.hm ELSE r1.hm}}) :
                  r1 \in {diff_halfMatchI(longtext, shorttext, (Len(longtext) + 3) \div 4)},
                  r2 \in {diff_halfMatchI(longtext, shorttext, (Len(longtext) + 1) \div 2)}})

(***************************************************************************)
(* diff_bisect: the middle snake.  v1 and v2 are arrays of v_length ints   *)
(* indexed from 0.  A read or write outside 0 .. v_length-1, or a text     *)
(* read at a negative index, sets `oob`.                                   *)
(***************************************************************************)
vGet(v, i) == IF i \in DOMAIN v THEN v[i] ELSE -1
vSet(v, i, x) == IF i \in DOMAIN v THEN [v EXCEPT ![i] = x] ELSE v

\* Length of the diagonal run from (x, y): text1[x..] against text2[y..].
snakeFront(text1, text2, x, y) ==
    IF x < 0 \/ y < 0 THEN 0
    ELSE diff_commonPrefix(substringFrom(text1, x), substringFrom(text2, y))

\* The same from the ends: text1[..len1-x) against text2[..len2-y).
snakeBack(text1, text2, x, y) ==
    IF x < 0 \/ y < 0 THEN 0
    ELSE diff_commonSuffix(substring(text1, 0, Len(text1) - x),
                           substring(text2, 0, Len(text2) - y))

\* One iteration of the front-path loop for diagonal k1.
bisectFrontStep(text1, text2, st, d, k1) ==
    LET text1_length == Len(text1)
        text2_length == Len(text2)
        max_d == (text1_length + text2_length + 1) \div 2
        v_offset == max_d
        v_length == 2 * max_d
        delta == text1_length - text2_length
        front == delta % 2 # 0
        k1_offset == v_offset + k1
        k2_offset == v_offset + delta - k1
        reads == IF k1 = -d THEN {k1_offset + 1}
                 ELSE IF k1 = d THEN {k1_offset - 1}
                 ELSE {k1_offset - 1, k1_offset + 1}
        \* x0, y0: where the diagonal is entered; n: the length of the snake.
        after(x0, y0, n) ==
            the({IF x0 + n > text1_length THEN [st1 EXCEPT !.k1end = @ + 2]
                 ELSE IF y0 + n > text2_length THEN [st1 EXCEPT !.k1start = @ + 2]
                 ELSE IF front /\ k2_offset >= 0 /\ k2_offset < v_length
                         /\ vGet(st1.v2, k2_offset) # -1
                         /\ x0 + n >= text1_length - vGet(st1.v2, k2_offset)
                      THEN [st1 EXCEPT !.found = TRUE, !.x = x0 + n, !.y = y0 + n]
                 ELSE st1 :
                 st1 \in {[st EXCEPT
                             !.v1 = vSet(@, k1_offset, x0 + n),
                             !.oob = \/ @
                                     \/ ~(reads \subseteq DOMAIN st.v1)
                                     \/ k1_offset \notin DOMAIN st.v1
                                     \/ (x0 < text1_length /\ y0 < text2_length
                                         /\ (x0 < 0 \/ y0 < 0))]}})
    IN  the({after(x0, x0 - k1, snakeFront(text1, text2, x0, x0 - k1)) :
             x0 \in {IF k1 = -d \/ (k1 # d /\ vGet(st.v1, k1_offset - 1)
                                                < vGet(st.v1, k1_offset + 1))
                     THEN vGet(st.v1, k1_offset + 1)
                     ELSE vGet(st.v1, k1_offset - 1) + 1}})

\* One iteration of the reverse-path loop for diagonal k2.
bisectReverseStep(text1, text2, st, d, k2) ==
    LET text1_length == Len(text1)
        text2_length == Len(text2)
        max_d == (text1_length + text2_length + 1) \div 2
        v_offset == max_d
        v_length == 2 * max_d
        delta == text1_length - text2_length
        front == delta % 2 # 0
        k2_offset == v_offset + k2
        k1_offset == v_offset + delta - k2
        reads == IF k2 = -d THEN {k2_offset + 1}
                 ELSE IF k2 = d THEN {k2_offset - 1}
                 ELSE {k2_offset - 1, k2_offset + 1}
        \* x0, y0: where the diagonal is entered; n: the length of the snake.
        after(x0, y0, n) ==
            the({IF x0 + n > text1_length THEN [st1 EXCEPT !.k2end = @ + 2]
                 ELSE IF y0 + n > text2_length THEN [st1 EXCEPT !.k2start = @ + 2]
                 ELSE IF ~front /\ k1_offset >= 0 /\ k1_offset < v_length
                         /\ vGet(st1.v1, k1_offset) # -1
                         /\ vGet(st1.v1, k1_offset) >= text1_length - (x0 + n)
                      THEN [st1 EXCEPT !.found = TRUE, !.x = vGet(st1.v1, k1_offset),
                                       !.y = v_offset + vGet(st1.v1, k1_offset) - k1_offset]
                 ELSE st1 :
                 st1 \in {[st EXCEPT
                             !.v2 = vSet(@, k2_offset, x0 + n),
                             !.oob = \/ @
                                     \/ ~(reads \subseteq DOMAIN st.v2)
                                     \/ k2_offset \notin DOMAIN st.v2
                                     \/ (x0 < text1_length /\ y0 < text2_length
                                         /\ (x0 < 0 \/ y0 < 0))]}})
    IN  the({after(x0, x0 - k2, snakeBack(text1, text2, x0, x0 - k2)) :
             x0 \in {IF k2 = -d \/ (k2 # d /\ vGet(st.v2, k2_offset - 1)
                                                < vGet(st.v2, k2_offset + 1))
                     THEN vGet(st.v2, k2_offset + 1)
                     ELSE vGet(st.v2, k2_offset - 1) + 1}})

RECURSIVE bisectFrontLoop(_, _, _, _, _)
bisectFrontLoop(text1, text2, st, d, k1) ==
    IF st.found \/ ~(k1 <= d - st.k1end) THEN st
    ELSE bisectFrontLoop(text1, text2, bisectFrontStep(text1, text2, st, d, k1), d, k1 + 2)

RECURSIVE bisectReverseLoop(_, _, _, _, _)
bisectReverseLoop(text1, text2, st, d, k2) ==
    IF st.found \/ ~(k2 <= d - st.k2end) THEN st
    ELSE bisectReverseLoop(text1, text2, bisectReverseStep(text1, text2, st, d, k2), d, k2 + 2)

RECURSIVE bisectLoop(_, _, _, _)
bisectLoop(text1, text2, st, d) ==
    LET max_d == (Len(text1) + Len(text2) + 1) \div 2
        s0 == [st EXCEPT !.clk = tick(@)]
    IN  IF ~(d < max_d) THEN st
        ELSE IF hitDeadline(st.clk) THEN [st EXCEPT !.fired = TRUE]
        ELSE the({the({IF s2.found THEN s2 ELSE bisectLoop(text1, text2, s2, d + 1) :
                       s2 \in {IF s1.found THEN s1
                               ELSE bisectReverseLoop(text1, text2, s1, d, -d + s1.k2start)}}) :
                  s1 \in {bisectFrontLoop(text1, text2, s0, d, -d + s0.k1start)}})

\* A faulty diff_bisect: the frontier arrays are one entry short.
diff_bisectPointShortArrays(text1, text2, clk) ==
    LET max_d == (Len(text1) + Len(text2) + 1) \div 2
        v_offset == max_d
        v_length == 2 * max_d
        v == [i \in 0..(v_length - 2) |-> -1]
    IN  bisectLoop(text1, text2,
                   [v1 |-> vSet(v, v_offset + 1, 0), v2 |-> vSet(v, v_offset + 1, 0),
                    k1start |-> 0, k1end |-> 0, k2start |-> 0, k2end |-> 0,
                    found |-> FALSE, x |-> 0, y |-> 0, clk |-> clk, fired |-> FALSE,
                    oob |-> (v_offset + 1) \notin DOMAIN v],
                   0)

\* diff_bisect(text1, text2, deadline, _x1, _y1): found, the split point,
\* the clock after the calls made, whether the deadline stopped the search
\* (fired), and whether an access was out of range.
diff_bisectPoint(text1, text2, clk) ==
    LET max_d == (Len(text1) + Len(text2) + 1) \div 2
        v_offset == max_d
        v_length == 2 * max_d
        v == [i \in 0..(v_length - 1) |-> -1]
    IN  bisectLoop(text1, text2,
                   [v1 |-> vSet(v, v_offset + 1, 0), v2 |-> vSet(v, v_offset + 1, 0),
                    k1start |-> 0, k1end |-> 0, k2start |-> 0, k2end |-> 0,
                    found |-> FALSE, x |-> 0, y |-> 0, clk |-> clk, fired |-> FALSE,
                    oob |-> (v_offset + 1) \notin DOMAIN v],
                   0)

(***************************************************************************)
(* diff_cleanupSemanticLossless and its score                              *)
(***************************************************************************)
\* blankLine1: `one` ends with eol, or eol ret eol... scanned backwards from
\* the end but never looking at the first character of `one`.
semanticBlankLine1(one) ==
    LET n == Len(one)
        p1n == IF n >= 2 /\ one[n - 1] = ret THEN n - 2 ELSE n - 1
    IN  /\ one[n] = eol
        /\ n - 1 >= 2
        /\ p1n >= 2
        /\ one[p1n] = eol

semanticBlankLine2(two) ==
    LET n == Len(two)
        a == IF two[1] = ret THEN 2 ELSE 1
        b == IF a + 1 <= n /\ two[a + 1] = ret THEN a + 2 ELSE a + 1
    IN  /\ a <= n /\ two[a] = eol
        /\ b <= n /\ two[b] = eol

diff_cleanupSemanticScore(one, two) ==
    IF Len(one) = 0 \/ Len(two) = 0 THEN 6
    ELSE LET char1 == one[Len(one)]
             char2 == two[1]
             nonAlphaNumeric1 == ~isAlphaNum(char1)
             nonAlphaNumeric2 == ~isAlphaNum(char2)
             whitespace1 == nonAlphaNumeric1 /\ isSpace(char1)
             whitespace2 == nonAlphaNumeric2 /\ isSpace(char2)
             lineBreak1 == whitespace1 /\ isControl(char1)
             lineBreak2 == whitespace2 /\ isControl(char2)
             blankLine1 == lineBreak1 /\ semanticBlankLine1(one)
             blankLine2 == lineBreak2 /\ semanticBlankLine2(two)
         IN  IF blankLine1 \/ blankLine2 THEN 5
             ELSE IF lineBreak1 \/ lineBreak2 THEN 4
             ELSE IF nonAlphaNumeric1 /\ ~whitespace1 /\ whitespace2 THEN 3
             ELSE IF whitespace1 \/ whitespace2 THEN 2
             ELSE IF nonAlphaNumeric1 \/ nonAlphaNumeric2 THEN 1
             ELSE 0

\* The step-right loop: returns the best (equality1, edit, equality2).
RECURSIVE losslessSlide(_, _, _, _)
losslessSlide(equality1, edit, equality2, best) ==
    IF ~(Len(edit) # 0 /\ Len(equality2) # 0 /\ edit[1] = equality2[1]) THEN best
    ELSE LET e1 == equality1 \o substring(edit, 0, 1)
             ed == substringFrom(edit, 1) \o substring(equality2, 0, 1)
             e2 == substringFrom(equality2, 1)
         IN  the({losslessSlide(e1, ed, e2,
                                IF score >= best.score
                                THEN [score |-> score, equality1 |-> e1, edit |-> ed,
                                      equality2 |-> e2]
                                ELSE best) :
                  score \in {diff_cleanupSemanticScore(e1, ed)
                             + diff_cleanupSemanticScore(ed, e2)}})

\* The body of the loop for a single edit surrounded by equalities.
losslessShift(diffs, pointer) ==
    LET eq1 == diffs[pointer].text
        ed0 == diffs[pointer + 1].text
        eq2 == diffs[pointer + 2].text
        \* The three entries after the edit was shifted left by commonOffset.
        shifted(commonOffset) ==
            LET commonString == substringFrom(ed0, Len(ed0) - commonOffset)
                equality1 == IF commonOffset > 0
                             THEN substring(eq1, 0, Len(eq1) - commonOffset) ELSE eq1
                edit == IF commonOffset > 0
                        THEN commonString \o substring(ed0, 0, Len(ed0) - commonOffset) ELSE ed0
                equality2 == IF commonOffset > 0 THEN commonString \o eq2 ELSE eq2
            IN  [score |-> diff_cleanupSemanticScore(equality1, edit)
                           + diff_cleanupSemanticScore(edit, equality2),
                 equality1 |-> equality1, edit |-> edit, equality2 |-> equality2]
        \* The list with the best triple written back.
        placed(best) ==
            LET dA == IF Len(best.equality1) # 0
                      THEN [diffs EXCEPT ![pointer].text = best.equality1]
                      ELSE splice(diffs, pointer - 1, 1, <<>>)
                pA == IF Len(best.equality1) # 0 THEN pointer ELSE pointer - 1
                dB == [dA EXCEPT ![pA + 1].text = best.edit]
                dC == IF Len(best.equality2) # 0
                      THEN [dB EXCEPT ![pA + 2].text = best.equality2]
                      ELSE splice(dB, pA + 1, 1, <<>>)
                pC == IF Len(best.equality2) # 0 THEN pA ELSE pA - 1
            IN  IF diffs[pointer].text # best.equality1
                THEN [diffs |-> dC, pointer |-> pC]
                ELSE [diffs |-> diffs, pointer |-> pointer]
    IN  the({placed(losslessSlide(first.equality1, first.edit, first.equality2, first)) :
             first \in {shifted(diff_commonSuffix(eq1, ed0))}})

RECURSIVE losslessLoop(_, _)
losslessLoop(diffs, pointer) ==
    IF ~(pointer < Len(diffs) - 1) THEN diffs
    ELSE IF diffs[pointer].operation = EQUAL /\ diffs[pointer + 2].operation = EQUAL
         THEN the({losslessLoop(r.diffs, r.pointer + 1) : r \in {losslessShift(diffs, pointer)}})
         ELSE losslessLoop(diffs, pointer + 1)

diff_cleanupSemanticLossless(diffs) ==
    IF Len(diffs) <= 0 THEN diffs ELSE losslessLoop(diffs, 1)

(***************************************************************************)
(* diff_cleanupSemantic                                                    *)
(***************************************************************************)
\* First loop: eliminate equalities no longer than the edits on both sides.
RECURSIVE semanticEliminate(_)
semanticEliminate(st) ==
    IF ~(st.pointer < Len(st.diffs)) THEN st
    ELSE LET d == st.diffs[st.pointer + 1]
         IN  IF d.operation = EQUAL
             THEN semanticEliminate([st EXCEPT
                      !.equalities = Append(@, st.pointer),
                      !.length_insertions1 = st.length_insertions2,
                      !.length_deletions1 = st.length_deletions2,
                      !.length_insertions2 = 0,
                      !.length_deletions2 = 0,
                      !.lastEquality = d.text,
                      !.pointer = @ + 1])
             ELSE LET li2 == IF d.operation = INSERT
                             THEN st.length_insertions2 + Len(d.text) ELSE st.length_insertions2
                      ld2 == IF d.operation = INSERT
                             THEN st.length_deletions2 ELSE st.length_deletions2 + Len(d.text)
                      le == st.lastEquality
                      back == st.equalities[Len(st.equalities)]
                      dupl == splice(st.diffs, back, 0, <<diff_t(DELETE, le)>>)
                      eqs == SubSeq(st.equalities, 1, Len(st.equalities) - 2)
                  IN  IF /\ Len(le) > 0
                         /\ Len(le) <= max(st.length_insertions1, st.length_deletions1)
                         /\ Len(le) <= max(li2, ld2)
                      THEN semanticEliminate(
                               [diffs |-> [dupl EXCEPT ![back + 2].operation = INSERT],
                                equalities |-> eqs,
                                pointer |-> (IF Len(eqs) > 0 THEN eqs[Len(eqs)] ELSE -1) + 1,
                                length_insertions1 |-> 0, length_deletions1 |-> 0,
                                length_insertions2 |-> 0, length_deletions2 |-> 0,
                                lastEquality |-> <<>>, changes |-> TRUE])
                      ELSE semanticEliminate([st EXCEPT !.length_insertions2 = li2,
                                                        !.length_deletions2 = ld2,
                                                        !.pointer = @ + 1])

\* A faulty last loop: an overlap is extracted only when it is at least half of
\* the deletion and at least half of the insertion.
RECURSIVE semanticOverlapsBoth(_, _)
semanticOverlapsBoth(diffs, pointer) ==
    IF ~(pointer < Len(diffs)) THEN diffs
    ELSE IF diffs[pointer].operation = DELETE /\ diffs[pointer + 1].operation = INSERT
    THEN LET deletion == diffs[pointer].text
             insertion == diffs[pointer + 1].text
             extract(overlap_length1, overlap_length2) ==
                 IF overlap_length1 >= overlap_length2
                 THEN IF 2 * overlap_length1 >= Len(deletion) /\ 2 * overlap_length1 >= Len(insertion)
                      THEN semanticOverlapsBoth(
                               [splice(diffs, pointer, 0,
                                       <<diff_t(EQUAL, substring(insertion, 0, overlap_length1))>>)
                                  EXCEPT ![pointer].text =
                                             substring(deletion, 0, Len(deletion) - overlap_length1),
                                         ![pointer + 2].text = substringFrom(insertion, overlap_length1)],
                               pointer + 3)
                      ELSE semanticOverlapsBoth(diffs, pointer + 2)
                 ELSE IF 2 * overlap_length2 >= Len(deletion) /\ 2 * overlap_length2 >= Len(insertion)
                      THEN semanticOverlapsBoth(
                               [splice(diffs, pointer, 0,
                                       <<diff_t(EQUAL, substring(deletion, 0, overlap_length2))>>)
                                  EXCEPT ![pointer] = diff_t(INSERT,
                                             substring(insertion, 0, Len(insertion) - overlap_length2)),
                                         ![pointer + 2] = diff_t(DELETE,
                                             substringFrom(deletion, overlap_length2))],
                               pointer + 3)
                      ELSE semanticOverlapsBoth(diffs, pointer + 2)
         IN  extract(diff_commonOverlap(deletion, insertion),
                     diff_commonOverlap(insertion, deletion))
    ELSE semanticOverlapsBoth(diffs, pointer + 1)

\* Last loop: extract overlaps between a deletion and the insertion after it.
RECURSIVE semanticOverlaps(_, _)
semanticOverlaps(diffs, pointer) ==
    IF ~(pointer < Len(diffs)) THEN diffs
    ELSE IF diffs[pointer].operation = DELETE /\ diffs[pointer + 1].operation = INSERT
    THEN LET deletion == diffs[pointer].text
             insertion == diffs[pointer + 1].text
             extract(overlap_length1, overlap_length2) ==
                 IF overlap_length1 >= overlap_length2
                 THEN IF 2 * overlap_length1 >= Len(deletion) \/ 2 * overlap_length1 >= Len(insertion)
                      THEN semanticOverlaps(
                               [splice(diffs, pointer, 0,
                                       <<diff_t(EQUAL, substring(insertion, 0, overlap_length1))>>)
                                  EXCEPT ![pointer].text =
                                             substring(deletion, 0, Len(deletion) - overlap_length1),
                                         ![pointer + 2].text = substringFrom(insertion, overlap_length1)],
                               pointer + 3)
                      ELSE semanticOverlaps(diffs, pointer + 2)
                 ELSE IF 2 * overlap_length2 >= Len(deletion) \/ 2 * overlap_length2 >= Len(insertion)
                      THEN semanticOverlaps(
                               [splice(diffs, pointer, 0,
                                       <<diff_t(EQUAL, substring(deletion, 0, overlap_length2))>>)
                                  EXCEPT ![pointer] = diff_t(INSERT,
                                             substring(insertion, 0, Len(insertion) - overlap_length2)),
                                         ![pointer + 2] = diff_t(DELETE,
                                             substringFrom(deletion, overlap_length2))],
                               pointer + 3)
                      ELSE semanticOverlaps(diffs, pointer + 2)
         IN  extract(diff_commonOverlap(deletion, insertion),
                     diff_commonOverlap(insertion, deletion))
    ELSE semanticOverlaps(diffs, pointer + 1)

diff_cleanupSemantic(diffs) ==
    IF Len(diffs) <= 0 THEN diffs
    ELSE the({semanticOverlaps(
                  diff_cleanupSemanticLossless(
                      IF r.changes THEN diff_cleanupMerge(r.diffs) ELSE r.diffs),
                  1) :
              r \in {semanticEliminate(
                         [diffs |-> diffs, equalities |-> <<>>, pointer |-> 0,
                          length_insertions1 |-> 0, length_deletions1 |-> 0,
                          length_insertions2 |-> 0, length_deletions2 |-> 0,
                          lastEquality |-> <<>>, changes |-> FALSE])}})

(***************************************************************************)
(* diff_cleanupEfficiency                                                  *)
(***************************************************************************)
boolCount(b) == IF b THEN 1 ELSE 0

\* A faulty diff_cleanupEfficiency loop: it duplicates the equality as a
\* deletion but leaves the second copy an equality.
RECURSIVE efficiencyLoopKeepsEqual(_, _)
efficiencyLoopKeepsEqual(settings, st) ==
    IF ~(st.pointer < Len(st.diffs)) THEN st
    ELSE LET d == st.diffs[st.pointer + 1]
         IN  IF d.operation = EQUAL
             THEN IF Len(d.text) < settings.Diff_EditCost /\ (st.post_ins \/ st.post_del)
                  THEN efficiencyLoopKeepsEqual(settings,
                           [st EXCEPT !.equalities = Append(@, st.pointer),
                                      !.pre_ins = st.post_ins, !.pre_del = st.post_del,
                                      !.lastEquality = d.text,
                                      !.post_ins = FALSE, !.post_del = FALSE,
                                      !.pointer = @ + 1])
                  ELSE efficiencyLoopKeepsEqual(settings,
                           [st EXCEPT !.equalities = <<>>, !.lastEquality = <<>>,
                                      !.post_ins = FALSE, !.post_del = FALSE,
                                      !.pointer = @ + 1])
             ELSE LET post_del == st.post_del \/ d.operation = DELETE
                      post_ins == st.post_ins \/ d.operation # DELETE
                      le == st.lastEquality
                      back == st.equalities[Len(st.equalities)]
                      dupl == splice(st.diffs, back, 0, <<diff_t(DELETE, le)>>)
                      eqs == SubSeq(st.equalities, 1, Len(st.equalities) - 2)
                  IN  IF /\ Len(le) # 0
                         /\ \/ (st.pre_ins /\ st.pre_del /\ post_ins /\ post_del)
                            \/ /\ Len(le) < settings.Diff_EditCost \div 2
                               /\ boolCount(st.pre_ins) + boolCount(st.pre_del)
                                  + boolCount(post_ins) + boolCount(post_del) = 3
                      THEN IF st.pre_ins /\ st.pre_del
                           THEN efficiencyLoopKeepsEqual(settings,
                                    [st EXCEPT !.diffs = dupl, !.lastEquality = <<>>,
                                               !.post_ins = TRUE, !.post_del = TRUE,
                                               !.equalities = <<>>, !.changes = TRUE,
                                               !.pointer = @ + 1])
                           ELSE efficiencyLoopKeepsEqual(settings,
                                    [st EXCEPT !.diffs = dupl, !.lastEquality = <<>>,
                                               !.post_ins = FALSE, !.post_del = FALSE,
                                               !.equalities = eqs, !.changes = TRUE,
                                               !.pointer = (IF Len(eqs) > 0 THEN eqs[Len(eqs)]
                                                            ELSE -1) + 1])
                      ELSE efficiencyLoopKeepsEqual(settings,
                               [st EXCEPT !.post_ins = post_ins, !.post_del = post_del,
                                          !.pointer = @ + 1])

RECURSIVE efficiencyLoop(_, _)
efficiencyLoop(settings, st) ==
    IF ~(st.pointer < Len(st.diffs)) THEN st
    ELSE LET d == st.diffs[st.pointer + 1]
         IN  IF d.operation = EQUAL
             THEN IF Len(d.text) < settings.Diff_EditCost /\ (st.post_ins \/ st.post_del)
                  THEN efficiencyLoop(settings,
                           [st EXCEPT !.equalities = Append(@, st.pointer),
                                      !.pre_ins = st.post_ins, !.pre_del = st.post_del,
                                      !.lastEquality = d.text,
                                      !.post_ins = FALSE, !.post_del = FALSE,
                                      !.pointer = @ + 1])
                  ELSE efficiencyLoop(settings,
                           [st EXCEPT !.equalities = <<>>, !.lastEquality = <<>>,
                                      !.post_ins = FALSE, !.post_del = FALSE,
                                      !.pointer = @ + 1])
             ELSE LET post_del == st.post_del \/ d.operation = DELETE
                      post_ins == st.post_ins \/ d.operation # DELETE
                      le == st.lastEquality
                      back == st.equalities[Len(st.equalities)]
                      dupl == [splice(st.diffs, back, 0, <<diff_t(DELETE, le)>>)
                                 EXCEPT ![back + 2].operation = INSERT]
                      eqs == SubSeq(st.equalities, 1, Len(st.equalities) - 2)
                  IN  IF /\ Len(le) # 0
                         /\ \/ (st.pre_ins /\ st.pre_del /\ post_ins /\ post_del)
                            \/ /\ Len(le) < settings.Diff_EditCost \div 2
                               /\ boolCount(st.pre_ins) + boolCount(st.pre_del)
                                  + boolCount(post_ins) + boolCount(post_del) = 3
                      THEN IF st.pre_ins /\ st.pre_del
                           THEN efficiencyLoop(settings,
                                    [st EXCEPT !.diffs = dupl, !.lastEquality = <<>>,
                                               !.post_ins = TRUE, !.post_del = TRUE,
                                               !.equalities = <<>>, !.changes = TRUE,
                                               !.pointer = @ + 1])
                           ELSE efficiencyLoop(settings,
                                    [st EXCEPT !.diffs = dupl, !.lastEquality = <<>>,
                                               !.post_ins = FALSE, !.post_del = FALSE,
                                               !.equalities = eqs, !.changes = TRUE,
                                               !.pointer = (IF Len(eqs) > 0 THEN eqs[Len(eqs)]
                                                            ELSE -1) + 1])
                      ELSE efficiencyLoop(settings,
                               [st EXCEPT !.post_ins = post_ins, !.post_del = post_del,
                                          !.pointer = @ + 1])

diff_cleanupEfficiency(settings, diffs) ==
    IF Len(diffs) <= 0 THEN diffs
    ELSE the({IF r.changes THEN diff_cleanupMerge(r.diffs) ELSE r.diffs :
              r \in {efficiencyLoop(settings,
                         [diffs |-> diffs, equalities |-> <<>>, lastEquality |-> <<>>,
                          pointer |-> 0, pre_ins |-> FALSE, pre_del |-> FALSE,
                          post_ins |-> FALSE, post_del |-> FALSE, changes |-> FALSE])}})

(***************************************************************************)
(* diff_xIndex                                                             *)
(***************************************************************************)
RECURSIVE xIndexLoop(_, _, _, _, _)
xIndexLoop(diffs, loc, i, last_chars1, last_chars2) ==
    IF i > Len(diffs) THEN last_chars2 + (loc - last_chars1)
    ELSE LET d == diffs[i]
             chars1 == IF d.operation # INSERT THEN last_chars1 + Len(d.text) ELSE last_chars1
             chars2 == IF d.operation # DELETE THEN last_chars2 + Len(d.text) ELSE last_chars2
         IN  IF chars1 > loc
             THEN IF d.operation = DELETE THEN last_chars2
                  ELSE last_chars2 + (loc - last_chars1)
             ELSE xIndexLoop(diffs, loc, i + 1, chars1, chars2)

diff_xIndex(diffs, loc) == xIndexLoop(diffs, loc, 1, 0, 0)

(***************************************************************************)
(* Line mode: diff_linesToChars, diff_charsToLines                         *)
(***************************************************************************)
maxLines1 == 40000
maxLines2 == 65535

\* lineHash is modelled by the sequence of distinct lines in insertion
\* order; the value stored for a line is its position in it.
lineId(lineHash, line) ==
    IF \E i \in 1..Len(lineHash) : lineHash[i] = line
    THEN CHOOSE i \in 1..Len(lineHash) : lineHash[i] = line
    ELSE Len(lineHash) + 1

\* A faulty diff_linesToCharsMunge: at the cap the walk stops, but the entry
\* stored is the current line and not the remainder of the text.
RECURSIVE mungeLoopLineAtCap(_, _, _, _, _)
mungeLoopLineAtCap(text, lineStart, encoded, lineHash, maxLines) ==
    LET len == Len(text)
        found == indexOf(text, <<eol>>, lineStart)
        id == Len(lineHash) + 1
        lineEnd == IF found = NPOS THEN len - 1 ELSE found
        line == substring(text, lineStart, lineEnd + 1 - lineStart)
        value == lineId(lineHash, line)
        hash2 == IF value = Len(lineHash) + 1 THEN Append(lineHash, line) ELSE lineHash
        enc2 == Append(encoded, value)
    IN  IF lineEnd < len - 1 /\ id # maxLines
        THEN mungeLoopLineAtCap(text, lineEnd + 1, enc2, hash2, maxLines)
        ELSE [encoded |-> enc2, lineHash |-> hash2]

RECURSIVE linesToCharsMungeLoop(_, _, _, _, _)
linesToCharsMungeLoop(text, lineStart, encoded, lineHash, maxLines) ==
    LET len == Len(text)
        found == indexOf(text, <<eol>>, lineStart)
        id == Len(lineHash) + 1
        lineEnd == IF id = maxLines THEN len
                   ELSE IF found = NPOS THEN len - 1 ELSE found
        line == IF id = maxLines THEN substringFrom(text, lineStart)
                ELSE substring(text, lineStart, lineEnd + 1 - lineStart)
        value == lineId(lineHash, line)
        hash2 == IF value = Len(lineHash) + 1 THEN Append(lineHash, line) ELSE lineHash
        enc2 == Append(encoded, value)
    IN  IF lineEnd < len - 1
        THEN linesToCharsMungeLoop(text, lineEnd + 1, enc2, hash2, maxLines)
        ELSE [encoded |-> enc2, lineHash |-> hash2]

diff_linesToCharsMunge(text, lineHash, maxLines) ==
    IF Len(text) <= 0 THEN [encoded |-> <<>>, lineHash |-> lineHash]
    ELSE linesToCharsMungeLoop(text, 0, <<>>, lineHash, maxLines)

diff_linesToChars(text1, text2) ==
    the({the({[chars1 |-> m1.encoded, chars2 |-> m2.encoded, lines |-> m2.lineHash] :
              m2 \in {diff_linesToCharsMunge(text2, m1.lineHash, maxLines2)}}) :
         m1 \in {diff_linesToCharsMunge(text1, <<>>, maxLines1)}})

RECURSIVE charsToText(_, _)
charsToText(chars, lines) ==
    IF chars = <<>> THEN <<>> ELSE lines[Head(chars)] \o charsToText(Tail(chars), lines)

diff_charsToLines(eDiffs, lines) ==
    [i \in 1..Len(eDiffs) |-> diff_t(eDiffs[i].operation, charsToText(eDiffs[i].text, lines))]

(***************************************************************************)
(* diff_main, diff_compute, diff_lineMode, diff_bisect                     *)
(* Each returns the diffs, the clock after the deadline checks it made,    *)
(* whether a bisect accessed its arrays out of range (oob) and whether the *)
(* deadline stopped a bisect (fired).                                      *)
(***************************************************************************)
diffResult(diffs, clk, oob, fired) ==
    [diffs |-> diffs, clk |-> clk, oob |-> oob, fired |-> fired]

RECURSIVE diff_main(_, _, _, _, _)
RECURSIVE diff_compute(_, _, _, _, _)
RECURSIVE diff_lineMode(_, _, _, _)
RECURSIVE lineModeRediff(_, _)

\* A faulty diff_bisectSplit: the script of the first halves is not kept.
bisectSplitSecondOnly(settings, text1, text2, x, y, clk) ==
    diff_main(settings, substringFrom(text1, x), substringFrom(text2, y), FALSE, clk)

diff_bisectSplit(settings, text1, text2, x, y, clk) ==
    the({the({diffResult(a.diffs \o b.diffs, b.clk, a.oob \/ b.oob, a.fired \/ b.fired) :
              b \in {diff_main(settings, substringFrom(text1, x), substringFrom(text2, y),
                               FALSE, a.clk)}}) :
         a \in {diff_main(settings, substring(text1, 0, x), substring(text2, 0, y), FALSE, clk)}})

\* A faulty diff_bisect: when the search gives up, the insertion comes first.
bisectInsertFirst(settings, text1, text2, clk) ==
    the({IF p.found
         THEN the({[r EXCEPT !.oob = @ \/ p.oob] :
                   r \in {diff_bisectSplit(settings, text1, text2, p.x, p.y, p.clk)}})
         ELSE diffResult(<<diff_t(INSERT, text2), diff_t(DELETE, text1)>>, p.clk, p.oob, p.fired) :
         p \in {diff_bisectPoint(text1, text2, clk)}})

diff_bisect(settings, text1, text2, clk) ==
    the({IF p.found
         THEN the({[r EXCEPT !.oob = @ \/ p.oob] :
                   r \in {diff_bisectSplit(settings, text1, text2, p.x, p.y, p.clk)}})
         ELSE diffResult(<<diff_t(DELETE, text1), diff_t(INSERT, text2)>>, p.clk, p.oob, p.fired) :
         p \in {diff_bisectPoint(text1, text2, clk)}})

diff_compute(settings, text1, text2, checklines, clk) ==
    LET longtext == IF Len(text1) > Len(text2) THEN text1 ELSE text2
        shorttext == IF Len(text1) > Len(text2) THEN text2 ELSE text1
        i == indexOf(longtext, shorttext, 0)
        op == IF Len(text1) > Len(text2) THEN DELETE ELSE INSERT
        \* The two halves around the common middle of the half match hm.
        halves(hm) ==
            the({the({diffResult(a.diffs \o <<diff_t(EQUAL, hm.best_common)>> \o b.diffs,
                                 b.clk, a.oob \/ b.oob, a.fired \/ b.fired) :
                      b \in {diff_main(settings, hm.best_longtext_b, hm.best_shorttext_b,
                                       checklines, a.clk)}}) :
                 a \in {diff_main(settings, hm.best_longtext_a, hm.best_shorttext_a,
                                  checklines, clk)}})
    IN  IF Len(text1) = 0 THEN diffResult(<<diff_t(INSERT, text2)>>, clk, FALSE, FALSE)
        ELSE IF Len(text2) = 0 THEN diffResult(<<diff_t(DELETE, text1)>>, clk, FALSE, FALSE)
        ELSE IF i # NPOS
             THEN diffResult(<<diff_t(op, substring(longtext, 0, i)),
                               diff_t(EQUAL, shorttext),
                               diff_t(op, substringFrom(longtext, i + Len(shorttext)))>>,
                             clk, FALSE, FALSE)
        ELSE IF Len(shorttext) = 1
             THEN diffResult(<<diff_t(DELETE, text1), diff_t(INSERT, text2)>>, clk, FALSE,
                             FALSE)
        ELSE the({IF h.ok THEN halves(h.hm)
                  ELSE IF checklines /\ Len(text1) > 100 /\ Len(text2) > 100
                       THEN diff_lineMode(settings, text1, text2, clk)
                  ELSE diff_bisect(settings, text1, text2, clk) :
                  h \in {diff_halfMatch(settings, text1, text2)}})

\* The rediff loop of diff_lineMode over the list with its dummy entry.
lineModeRediff(settings, st) ==
    IF ~(st.pointer < Len(st.diffs)) THEN st
    ELSE LET d == st.diffs[st.pointer + 1]
             n == st.count_delete + st.count_insert
         IN  CASE d.operation = INSERT ->
                    lineModeRediff(settings,
                        [st EXCEPT !.count_insert = @ + 1, !.text_insert = @ \o d.text,
                                   !.pointer = @ + 1])
               [] d.operation = DELETE ->
                    lineModeRediff(settings,
                        [st EXCEPT !.count_delete = @ + 1, !.text_delete = @ \o d.text,
                                   !.pointer = @ + 1])
               [] OTHER ->
                    IF st.count_delete >= 1 /\ st.count_insert >= 1
                    THEN the({lineModeRediff(settings,
                                  [diffs |-> splice(st.diffs, st.pointer - n, n, sub.diffs),
                                   pointer |-> st.pointer - n + Len(sub.diffs) + 1,
                                   count_delete |-> 0, count_insert |-> 0,
                                   text_delete |-> <<>>, text_insert |-> <<>>,
                                   clk |-> sub.clk, oob |-> st.oob \/ sub.oob,
                                   fired |-> st.fired \/ sub.fired]) :
                              sub \in {diff_main(settings, st.text_delete, st.text_insert,
                                                 FALSE, st.clk)}})
                    ELSE lineModeRediff(settings,
                             [st EXCEPT !.count_delete = 0, !.count_insert = 0,
                                        !.text_delete = <<>>, !.text_insert = <<>>,
                                        !.pointer = @ + 1])

diff_lineMode(settings, text1, text2, clk) ==
    the({the({the({diffResult(SubSeq(r.diffs, 1, Len(r.diffs) - 1), r.clk, r.oob, r.fired) :
                   r \in {lineModeRediff(settings,
                              [diffs |-> Append(diff_cleanupSemantic(
                                                    diff_charsToLines(e.diffs, enc.lines)),
                                                diff_t(EQUAL, <<>>)),
                               pointer |-> 0,
                               count_delete |-> 0, count_insert |-> 0,
                               text_delete |-> <<>>, text_insert |-> <<>>,
                               clk |-> e.clk, oob |-> e.oob, fired |-> e.fired])}}) :
              e \in {diff_main(settings, enc.chars1, enc.chars2, FALSE, clk)}}) :
         enc \in {diff_linesToChars(text1, text2)}})

diff_main(settings, text1, text2, checklines, clk) ==
    IF text1 = text2
    THEN diffResult(IF Len(text1) # 0 THEN <<diff_t(EQUAL, text1)>> ELSE <<>>, clk, FALSE, FALSE)
    ELSE LET pre == diff_commonPrefix(text1, text2)
             commonprefix == substring(text1, 0, pre)
             t1 == substringFrom(text1, pre)
             t2 == substringFrom(text2, pre)
             suf == diff_commonSuffix(t1, t2)
             commonsuffix == substringFrom(t1, Len(t1) - suf)
             withPrefix(ds) == IF Len(commonprefix) # 0
                               THEN <<diff_t(EQUAL, commonprefix)>> \o ds ELSE ds
             withSuffix(ds) == IF Len(commonsuffix) # 0
                               THEN Append(ds, diff_t(EQUAL, commonsuffix)) ELSE ds
         IN  the({diffResult(diff_cleanupMerge(withSuffix(withPrefix(c.diffs))),
                             c.clk, c.oob, c.fired) :
                  c \in {diff_compute(settings, substring(t1, 0, Len(t1) - suf),
                                      substring(t2, 0, Len(t2) - suf), checklines, clk)}})

\* diff_main(settings, diffs, pool, text1, text2, checklines): the entry
\* point that sets the deadline.  `budget` is how many deadline checks
\* answer false when a deadline is set.
diff_mainTimed(settings, text1, text2, checklines, budget) ==
    diff_main(settings, text1, text2, checklines,
              IF settings.Diff_Timeout > 0 THEN budget ELSE NoDeadline)

(***************************************************************************)
(* match_main, match_bitap                                                 *)
(* Bit arrays are sets of bit positions.  A score is a fraction <<n, d>>   *)
(* with d > 0; the thresholds of the settings are fractions as well.       *)
(***************************************************************************)
scoreLeq(s1, s2) == s1[1] * s2[2] <= s2[1] * s1[2]
scoreMin(s1, s2) == IF scoreLeq(s1, s2) THEN s1 ELSE s2

\* A faulty match_bitapScore: with Match_Distance 0 a candidate at loc scores 0
\* whatever its errors.
bitapScoreZeroAtLoc(settings, e, x, loc, pattern) ==
    LET proximity == IF loc >= x THEN loc - x ELSE x - loc
    IN  IF settings.Match_Distance = 0
        THEN IF proximity = 0 THEN <<0, 1>> ELSE <<1, 1>>
        ELSE <<e * settings.Match_Distance + proximity * Len(pattern),
               Len(pattern) * settings.Match_Distance>>

match_bitapScore(settings, e, x, loc, pattern) ==
    LET proximity == IF loc >= x THEN loc - x ELSE x - loc
    IN  IF settings.Match_Distance = 0
        THEN IF proximity = 0 THEN <<e, Len(pattern)>> ELSE <<1, 1>>
        ELSE <<e * settings.Match_Distance + proximity * Len(pattern),
               Len(pattern) * settings.Match_Distance>>

\* s[c] |= 1 << (l - i - 1) for every position i of the pattern holding c.
match_alphabet(pattern) ==
    [c \in {pattern[i] : i \in 1..Len(pattern)} |->
        {Len(pattern) - i : i \in {k \in 1..Len(pattern) : pattern[k] = c}}]

\* Bit operations on size_t (64 bits) and the int conversions of the source.
shl1(bits) == {i + 1 : i \in {k \in bits : k < 63}}
toInt(bits) == LET low == bits \cap 0..31
               IN  IF 31 \in low THEN low \cup 32..63 ELSE low
lowBits(d) == 0..(d - 1)

\* The binary search for how far from loc a match at error level d may be.
RECURSIVE bitapBinSearch(_, _, _, _, _, _, _, _)
bitapBinSearch(settings, pattern, loc, d, score_threshold, bin_min, bin_mid, bin_max) ==
    IF ~(bin_min < bin_mid) THEN bin_mid
    ELSE LET fits == scoreLeq(match_bitapScore(settings, d, loc + bin_mid, loc, pattern),
                              score_threshold)
             mn == IF fits THEN bin_mid ELSE bin_min
             mx == IF fits THEN bin_max ELSE bin_mid
         IN  bitapBinSearch(settings, pattern, loc, d, score_threshold,
                            mn, (mx - mn) \div 2 + mn, mx)

\* The scan for j = finish down to start at error level d.
RECURSIVE bitapScan(_, _, _, _, _, _, _, _)
bitapScan(settings, text, pattern, loc, d, last_rd, st, j) ==
    IF ~(j >= st.start) THEN st
    ELSE LET alphabet == match_alphabet(pattern)
             matchmask == toInt({Len(pattern) - 1})
             charMatch == IF Len(text) <= j - 1 \/ text[j] \notin DOMAIN alphabet THEN {}
                          ELSE toInt(alphabet[text[j]])
             exact == (shl1(st.rd[j + 1]) \cup {0}) \cap charMatch
             rdj == IF d = 0 THEN exact
                    ELSE exact \cup (shl1(last_rd[j + 1] \cup last_rd[j]) \cup {0})
                               \cup last_rd[j + 1]
             st1 == [st EXCEPT !.rd[j] = rdj]
             score == match_bitapScore(settings, d, j - 1, loc, pattern)
         IN  IF rdj \cap matchmask # {} /\ scoreLeq(score, st.score_threshold)
             THEN IF j - 1 > loc
                  THEN bitapScan(settings, text, pattern, loc, d, last_rd,
                                 [st1 EXCEPT !.score_threshold = score, !.best_loc = j - 1,
                                             !.start = max(1, 2 * loc - (j - 1))],
                                 j - 1)
                  ELSE [st1 EXCEPT !.score_threshold = score, !.best_loc = j - 1]
             ELSE bitapScan(settings, text, pattern, loc, d, last_rd, st1, j - 1)

RECURSIVE bitapLevels(_, _, _, _, _, _, _, _, _)
bitapLevels(settings, text, pattern, loc, d, bin_max, last_rd, score_threshold, best_loc) ==
    IF ~(d < Len(pattern)) THEN best_loc
    ELSE LET \* The scan of level d between start and finish.
             scanned(bin_mid) ==
                 LET start == max(1, loc - bin_mid + 1)
                     finish == min(loc + bin_mid, Len(text)) + Len(pattern)
                     rd0 == [i \in 0..(finish + 1) |->
                                IF i = finish + 1 THEN lowBits(d) ELSE {}]
                 IN  bitapScan(settings, text, pattern, loc, d, last_rd,
                               [rd |-> rd0, start |-> start,
                                score_threshold |-> score_threshold, best_loc |-> best_loc],
                               finish)
         IN  the({the({IF ~scoreLeq(match_bitapScore(settings, d + 1, loc, loc, pattern),
                                    st.score_threshold)
                       THEN st.best_loc
                       ELSE bitapLevels(settings, text, pattern, loc, d + 1, bin_mid, st.rd,
                                        st.score_threshold, st.best_loc) :
                       st \in {scanned(bin_mid)}}) :
                  bin_mid \in {bitapBinSearch(settings, pattern, loc, d, score_threshold,
                                              0, bin_max, bin_max)}})

match_bitap(settings, text, pattern, loc) ==
    LET first == indexOf(text, pattern, loc)
        t1 == IF first # NPOS
              THEN scoreMin(match_bitapScore(settings, 0, first, loc, pattern),
                            settings.Match_Threshold)
              ELSE settings.Match_Threshold
        last == IF first # NPOS
                THEN lastIndexOf(text, pattern, min(loc + Len(pattern), Len(text)))
                ELSE NPOS
        t2 == IF last # NPOS
              THEN scoreMin(match_bitapScore(settings, 0, last, loc, pattern), t1)
              ELSE t1
    IN  bitapLevels(settings, text, pattern, loc, 0, Len(pattern) + Len(text),
                    <<>>, t2, NPOS)

\* A faulty match_main: the empty text is tested before the equality
\* shortcut.
matchMainEmptyFirst(settings, text, pattern, loc0) ==
    LET loc == max(0, min(loc0, Len(text)))
    IN  IF Len(text) = 0 THEN NPOS
        ELSE IF text = pattern THEN 0
        ELSE IF loc + Len(pattern) <= Len(text) /\ substring(text, loc, Len(pattern)) = pattern
             THEN loc
        ELSE match_bitap(settings, text, pattern, loc)

match_main(settings, text, pattern, loc0) ==
    LET loc == max(0, min(loc0, Len(text)))
    IN  IF text = pattern THEN 0
        ELSE IF Len(text) = 0 THEN NPOS
        ELSE IF loc + Len(pattern) <= Len(text) /\ substring(text, loc, Len(pattern)) = pattern
             THEN loc
        ELSE match_bitap(settings, text, pattern, loc)

(***************************************************************************)
(* Patches: patch_addContext, patch_make                                   *)
(***************************************************************************)
patch_t(diffs, start1, start2, length1, length2) ==
    [diffs |-> diffs, start1 |-> start1, start2 |-> start2,
     length1 |-> length1, length2 |-> length2]

nullPatch == patch_t(<<>>, 0, 0, 0, 0)

\* The loop of patch_addContext that widens the pattern until it is unique.
RECURSIVE addContextPadding(_, _, _, _, _)
addContextPadding(settings, patch, text, pattern, padding) ==
    IF /\ indexOf(text, pattern, 0) # lastIndexOf(text, pattern, Len(text))
       /\ Len(pattern) < settings.Match_MaxBits - settings.Patch_Margin - settings.Patch_Margin
    THEN LET padding2 == padding + settings.Patch_Margin
             s == max(0, patch.start2 - padding2)
             e == min(Len(text), patch.start2 + patch.length1 + padding2)
         IN  addContextPadding(settings, patch, text, substring(text, s, e - s), padding2)
    ELSE padding

patch_addContext(settings, patch, text) ==
    LET \* The patch with `padding` characters of context on both sides.
        padded(padding) ==
            LET s == max(0, patch.start2 - padding)
                prefix == substring(text, s, patch.start2 - s)
                s2 == patch.start2 + patch.length1
                suffix == substring(text, s2,
                                    min(Len(text), patch.start2 + patch.length1 + padding) - s2)
                withPrefix == IF Len(prefix) # 0
                              THEN <<diff_t(EQUAL, prefix)>> \o patch.diffs ELSE patch.diffs
                withSuffix == IF Len(suffix) # 0
                              THEN Append(withPrefix, diff_t(EQUAL, suffix)) ELSE withPrefix
            IN  patch_t(withSuffix,
                        patch.start1 - Len(prefix), patch.start2 - Len(prefix),
                        patch.length1 + Len(prefix) + Len(suffix),
                        patch.length2 + Len(prefix) + Len(suffix))
    IN  IF Len(text) = 0 THEN patch
        ELSE padded(addContextPadding(settings, patch, text,
                                      substring(text, patch.start2, patch.length1), 0)
                    + settings.Patch_Margin)

\* "calculate length of next string": the scan from `i` that projects the
\* length of the text after the remaining diffs.
RECURSIVE makeScan(_, _, _, _, _, _)
makeScan(settings, diffs, patch, i, len, maxLength) ==
    IF ~(i < Len(diffs)) THEN [len |-> len, maxLength |-> maxLength]
    ELSE LET d == diffs[i + 1]
             len2 == CASE d.operation = INSERT -> len + Len(d.text)
                       [] d.operation = DELETE -> len - min(len, Len(d.text))
                       [] OTHER -> len
             stop == /\ d.operation = EQUAL
                     /\ Len(d.text) >= 2 * settings.Patch_Margin
                     /\ Len(patch.diffs) # 0
         IN  makeScan(settings, diffs, patch, IF stop THEN Len(diffs) ELSE i + 1,
                      len2, max(maxLength, len2))

\* One iteration of the inner loop of patch_make, for diffs[index].
makeStep(settings, diffs, st) ==
    LET aDiff == diffs[st.index + 1]
        n == Len(aDiff.text)
        margin2 == 2 * settings.Patch_Margin
        p0 == IF Len(st.patch.diffs) = 0 /\ aDiff.operation # EQUAL
              THEN [st.patch EXCEPT !.start1 = st.char_count1, !.start2 = st.char_count2]
              ELSE st.patch
        p1 == CASE aDiff.operation = INSERT ->
                     [p0 EXCEPT !.diffs = Append(@, aDiff), !.length2 = @ + n]
                [] aDiff.operation = DELETE ->
                     [p0 EXCEPT !.diffs = Append(@, aDiff), !.length1 = @ + n]
                [] OTHER ->
                     IF n <= margin2 /\ Len(p0.diffs) # 0 /\ aDiff # diffs[Len(diffs)]
                     THEN [p0 EXCEPT !.diffs = Append(@, aDiff),
                                     !.length1 = @ + n, !.length2 = @ + n]
                     ELSE p0
        post == CASE aDiff.operation = INSERT ->
                       str_insert(st.postpatch_text, st.char_count2, aDiff.text)
                  [] aDiff.operation = DELETE ->
                       str_remove(st.postpatch_text, st.char_count2, n)
                  [] OTHER -> st.postpatch_text
        newPatch == aDiff.operation = EQUAL /\ n >= margin2 /\ Len(p1.diffs) # 0
        cc1 == IF newPatch THEN st.char_count2 ELSE st.char_count1
    IN  [patches |-> IF newPatch
                     THEN Append(st.patches, patch_addContext(settings, p1, st.prepatch_text))
                     ELSE st.patches,
         patch |-> IF newPatch THEN nullPatch ELSE p1,
         prepatch_text |-> IF newPatch THEN post ELSE st.prepatch_text,
         postpatch_text |-> post,
         char_count1 |-> IF aDiff.operation # INSERT THEN cc1 + n ELSE cc1,
         char_count2 |-> IF aDiff.operation # DELETE THEN st.char_count2 + n
                         ELSE st.char_count2,
         index |-> st.index + 1,
         len |-> IF newPatch THEN 0 ELSE st.len,
         hang |-> FALSE]

RECURSIVE makeInner(_, _, _)
makeInner(settings, diffs, st) ==
    IF ~(st.index < Len(diffs) /\ st.len > 0) THEN st
    ELSE makeInner(settings, diffs, makeStep(settings, diffs, st))

\* The outer loop.  When the projected length is 0 the inner loop does not
\* run, index does not move, and the outer loop repeats for ever: hang.
RECURSIVE makeOuter(_, _, _)
makeOuter(settings, diffs, st) ==
    IF ~(st.index < Len(diffs)) THEN st
    ELSE LET sc == makeScan(settings, diffs, st.patch, st.index,
                            Len(st.prepatch_text), Len(st.prepatch_text))
         IN  IF ~(sc.len > 0) THEN [st EXCEPT !.hang = TRUE]
             ELSE makeOuter(settings, diffs,
                            makeInner(settings, diffs,
                                      [st EXCEPT !.postpatch_text = st.prepatch_text,
                                                 !.len = sc.len]))

\* A faulty patch_make: the leftover patch is put in front of the list.
makeLeftoverFirst(settings, text1, diffs) ==
    IF Len(diffs) = 0 THEN [hang |-> FALSE, patches |-> <<>>]
    ELSE the({[hang |-> st.hang,
               patches |-> IF ~st.hang /\ Len(st.patch.diffs) # 0
                           THEN <<patch_addContext(settings, st.patch, st.prepatch_text)>>
                             \o st.patches
                           ELSE st.patches] :
              st \in {makeOuter(settings, diffs,
                          [patches |-> <<>>, patch |-> nullPatch,
                           prepatch_text |-> text1, postpatch_text |-> <<>>,
                           char_count1 |-> 0, char_count2 |-> 0,
                           index |-> 0, len |-> 0, hang |-> FALSE])}})

\* patch_make(settings, patches, pool, text1, diffs)
patch_makeFromDiffs(settings, text1, diffs) ==
    IF Len(diffs) = 0 THEN [hang |-> FALSE, patches |-> <<>>]
    ELSE the({[hang |-> st.hang,
               patches |-> IF ~st.hang /\ Len(st.patch.diffs) # 0
                           THEN Append(st.patches,
                                    patch_addContext(settings, st.patch, st.prepatch_text))
                           ELSE st.patches] :
              st \in {makeOuter(settings, diffs,
                          [patches |-> <<>>, patch |-> nullPatch,
                           prepatch_text |-> text1, postpatch_text |-> <<>>,
                           char_count1 |-> 0, char_count2 |-> 0,
                           index |-> 0, len |-> 0, hang |-> FALSE])}})

\* patch_make(settings, patches, pool, text1, text2)
patch_make(settings, text1, text2, budget) ==
    the({patch_makeFromDiffs(settings, text1,
                             IF Len(d) > 2
                             THEN diff_cleanupEfficiency(settings, diff_cleanupSemantic(d))
                             ELSE d) :
         d \in {diff_mainTimed(settings, text1, text2, TRUE, budget).diffs}})

(***************************************************************************)
(* patch_addPadding, patch_splitMax                                        *)
(***************************************************************************)
\* The padding string: characters 1 .. Patch_Margin.
nullPaddingOf(settings) == [x \in 1..settings.Patch_Margin |-> x]

\* A faulty padFirst: the padding is added, the lengths are not.
padFirstKeepLengths(patch, nullPadding) ==
    patch_t(<<diff_t(EQUAL, nullPadding)>> \o patch.diffs,
            patch.start1 - Len(nullPadding), patch.start2 - Len(nullPadding),
            patch.length1, patch.length2)

\* "Add some padding on start of first diff."
padFirst(patch, nullPadding) ==
    LET paddingLength == Len(nullPadding)
        diffs == patch.diffs
        extraLength == paddingLength - Len(diffs[1].text)
    IN  IF Len(diffs) = 0 \/ diffs[1].operation # EQUAL
        THEN patch_t(<<diff_t(EQUAL, nullPadding)>> \o diffs,
                     patch.start1 - paddingLength, patch.start2 - paddingLength,
                     patch.length1 + paddingLength, patch.length2 + paddingLength)
        ELSE IF paddingLength > Len(diffs[1].text)
        THEN patch_t([diffs EXCEPT ![1].text =
                          substringFrom(nullPadding, Len(diffs[1].text)) \o @],
                     patch.start1 - extraLength, patch.start2 - extraLength,
                     patch.length1 + extraLength, patch.length2 + extraLength)
        ELSE patch

\* "Add some padding on end of last diff."
padLast(patch, nullPadding) ==
    LET paddingLength == Len(nullPadding)
        diffs == patch.diffs
        last == diffs[Len(diffs)]
        extraLength == paddingLength - Len(last.text)
    IN  IF Len(diffs) = 0 \/ last.operation # EQUAL
        THEN [patch EXCEPT !.diffs = Append(diffs, diff_t(EQUAL, nullPadding)),
                           !.length1 = @ + paddingLength, !.length2 = @ + paddingLength]
        ELSE IF paddingLength > Len(last.text)
        THEN [patch EXCEPT !.diffs[Len(diffs)].text = @ \o substring(nullPadding, 0, extraLength),
                           !.length1 = @ + extraLength, !.length2 = @ + extraLength]
        ELSE patch

\* patch_addPadding on a non-empty list; the padding string it returns is
\* nullPaddingOf(settings).
patch_addPadding(settings, patches) ==
    LET nullPadding == nullPaddingOf(settings)
        bumped == [i \in 1..Len(patches) |->
                      [patches[i] EXCEPT !.start1 = @ + Len(nullPadding),
                                         !.start2 = @ + Len(nullPadding)]]
        first == [bumped EXCEPT ![1] = padFirst(@, nullPadding)]
    IN  [first EXCEPT ![Len(first)] = padLast(@, nullPadding)]

\* A faulty inner loop of patch_splitMax: the patch is filled up to Match_MaxBits,
\* with no room left for the context that follows it.
RECURSIVE splitFillNoMargin(_, _)
splitFillNoMargin(settings, st) ==
    LET patch_size == settings.Match_MaxBits
        patch == st.patch
    IN  IF ~(Len(st.rest) > 0 /\ patch.length1 < patch_size) THEN st
        ELSE LET diff_type == st.rest[1].operation
                 diff_text == st.rest[1].text
                 n == Len(diff_text)
                 chunk == substring(diff_text, 0,
                                    min(n, patch_size - patch.length1))
                 c == Len(chunk)
             IN  IF diff_type = INSERT
                 THEN splitFillNoMargin(settings,
                          [st EXCEPT !.patch.length2 = @ + n, !.start2 = @ + n,
                                     !.patch.diffs = Append(@, st.rest[1]),
                                     !.rest = Tail(@), !.empty = FALSE])
                 ELSE IF /\ diff_type = DELETE /\ Len(patch.diffs) = 1
                         /\ patch.diffs[1].operation = EQUAL /\ n > 2 * patch_size
                 THEN splitFillNoMargin(settings,
                          [st EXCEPT !.patch.length1 = @ + n, !.start1 = @ + n,
                                     !.patch.diffs = Append(@, diff_t(diff_type, diff_text)),
                                     !.rest = Tail(@), !.empty = FALSE])
                 ELSE splitFillNoMargin(settings,
                          [st EXCEPT !.patch.length1 = @ + c, !.start1 = @ + c,
                                     !.patch.length2 = IF diff_type = EQUAL THEN @ + c ELSE @,
                                     !.start2 = IF diff_type = EQUAL THEN @ + c ELSE @,
                                     !.empty = IF diff_type = EQUAL THEN @ ELSE FALSE,
                                     !.patch.diffs = Append(@, diff_t(diff_type, chunk)),
                                     !.rest = IF chunk = diff_text THEN Tail(@)
                                              ELSE [@ EXCEPT ![1].text = substringFrom(@, c)]])

\* The inner loop of patch_splitMax: fill `patch` from the diffs of the big
\* patch that are left (`rest`).
RECURSIVE splitFill(_, _)
splitFill(settings, st) ==
    LET patch_size == settings.Match_MaxBits
        patch == st.patch
    IN  IF ~(Len(st.rest) > 0 /\ patch.length1 < patch_size - settings.Patch_Margin) THEN st
        ELSE LET diff_type == st.rest[1].operation
                 diff_text == st.rest[1].text
                 n == Len(diff_text)
                 chunk == substring(diff_text, 0,
                                    min(n, patch_size - patch.length1 - settings.Patch_Margin))
                 c == Len(chunk)
             IN  IF diff_type = INSERT
                 THEN splitFill(settings,
                          [st EXCEPT !.patch.length2 = @ + n, !.start2 = @ + n,
                                     !.patch.diffs = Append(@, st.rest[1]),
                                     !.rest = Tail(@), !.empty = FALSE])
                 ELSE IF /\ diff_type = DELETE /\ Len(patch.diffs) = 1
                         /\ patch.diffs[1].operation = EQUAL /\ n > 2 * patch_size
                 THEN splitFill(settings,
                          [st EXCEPT !.patch.length1 = @ + n, !.start1 = @ + n,
                                     !.patch.diffs = Append(@, diff_t(diff_type, diff_text)),
                                     !.rest = Tail(@), !.empty = FALSE])
                 ELSE splitFill(settings,
                          [st EXCEPT !.patch.length1 = @ + c, !.start1 = @ + c,
                                     !.patch.length2 = IF diff_type = EQUAL THEN @ + c ELSE @,
                                     !.start2 = IF diff_type = EQUAL THEN @ + c ELSE @,
                                     !.empty = IF diff_type = EQUAL THEN @ ELSE FALSE,
                                     !.patch.diffs = Append(@, diff_t(diff_type, chunk)),
                                     !.rest = IF chunk = diff_text THEN Tail(@)
                                              ELSE [@ EXCEPT ![1].text = substringFrom(@, c)]])

\* The loop "while (bpi < bps)" that cuts one big patch into small ones.
\* When the head context alone fills a patch, the inner loop takes nothing
\* and this loop repeats for ever: hang.
RECURSIVE splitBig(_, _, _, _, _, _)
splitBig(settings, rest, start1, start2, precontext, out) ==
    IF ~(Len(rest) > 0) THEN [hang |-> FALSE, patches |-> out]
    ELSE IF ~(Len(precontext) < settings.Match_MaxBits - settings.Patch_Margin)
    THEN [hang |-> TRUE, patches |-> out]
    ELSE LET p0 == patch_t(IF Len(precontext) # 0 THEN <<diff_t(EQUAL, precontext)>> ELSE <<>>,
                           start1 - Len(precontext), start2 - Len(precontext),
                           Len(precontext), Len(precontext))
             \* The filled patch f.patch with the context that follows it.
             closed(f, postcontext) ==
                 LET k == Len(f.patch.diffs)
                 IN  IF Len(postcontext) = 0 THEN f.patch
                     ELSE [f.patch EXCEPT
                              !.length1 = @ + Len(postcontext),
                              !.length2 = @ + Len(postcontext),
                              !.diffs = IF k # 0 /\ @[k].operation = EQUAL
                                        THEN [@ EXCEPT ![k].text = @ \o postcontext]
                                        ELSE Append(@, diff_t(EQUAL, postcontext))]
         IN  the({the({splitBig(settings, f.rest, f.start1, f.start2,
                                substringFrom(t2, max(0, Len(t2) - settings.Patch_Margin)),
                                IF ~f.empty
                                THEN Append(out,
                                         closed(f, IF Len(dtext1) > settings.Patch_Margin
                                                   THEN substring(dtext1, 0, settings.Patch_Margin)
                                                   ELSE dtext1))
                                ELSE out) :
                       t2 \in {diff_text2(f.patch.diffs)}, dtext1 \in {diff_text1(f.rest)}}) :
                  f \in {splitFill(settings, [patch |-> p0, rest |-> rest, start1 |-> start1,
                                              start2 |-> start2, empty |-> TRUE])}})

RECURSIVE splitMaxLoop(_, _, _)
splitMaxLoop(settings, patches, out) ==
    IF patches = <<>> THEN [hang |-> FALSE, patches |-> out]
    ELSE LET bigpatch == Head(patches)
         IN  IF bigpatch.length1 <= settings.Match_MaxBits
             THEN splitMaxLoop(settings, Tail(patches), Append(out, bigpatch))
             ELSE the({IF r.hang THEN r ELSE splitMaxLoop(settings, Tail(patches), r.patches) :
                       r \in {splitBig(settings, bigpatch.diffs, bigpatch.start1,
                                       bigpatch.start2, <<>>, out)}})

patch_splitMax(settings, patches) == splitMaxLoop(settings, patches, <<>>)

(***************************************************************************)
(* patch_apply                                                             *)
(* The working state of one call: the copied (padded, split) patch list,   *)
(* the working text, the loop index x, delta and the result flags.         *)
(***************************************************************************)
\* Where the patch is looked for: start_loc and end_loc of the loop body.
applyLocate(settings, text, text1, expected_loc) ==
    LET bits == settings.Match_MaxBits
    IN  IF Len(text1) > bits
        THEN the({the({IF s # NPOS /\ (e = NPOS \/ s >= e)
                       THEN [start_loc |-> NPOS, end_loc |-> e]
                       ELSE [start_loc |-> s, end_loc |-> e] :
                       e \in {IF s # NPOS
                              THEN match_main(settings, text,
                                              substringFrom(text1, Len(text1) - bits),
                                              expected_loc + Len(text1) - bits)
                              ELSE NPOS}}) :
                  s \in {match_main(settings, text, substring(text1, 0, bits), expected_loc)}})
        ELSE [start_loc |-> match_main(settings, text, text1, expected_loc), end_loc |-> NPOS]

\* The second loop over aPatch.diffs of an imperfect match: replay the
\* patch's insertions and deletions through the index map `diffs`.
RECURSIVE applyEdits(_, _, _, _, _, _)
applyEdits(pdiffs, diffs, start_loc, i, index1, text) ==
    IF i > Len(pdiffs) THEN text
    ELSE LET aDiff == pdiffs[i]
             index2 == diff_xIndex(diffs, index1)
             t == IF aDiff.operation = INSERT
                  THEN str_insert(text, start_loc + index2, aDiff.text)
                  ELSE IF aDiff.operation = DELETE
                  THEN str_remove(text, start_loc + index2,
                                  diff_xIndex(diffs, index1 + Len(aDiff.text)) - index2)
                  ELSE text
         IN  applyEdits(pdiffs, diffs, start_loc, i + 1,
                        IF aDiff.operation # DELETE THEN index1 + Len(aDiff.text) ELSE index1, t)

\* Where the loop body looks for patch number st.x and what it finds.
applyWhere(settings, st) ==
    LET aPatch == st.patches[st.x + 1]
    IN  applyLocate(settings, st.text, diff_text1(aPatch.diffs),
                    max(0, aPatch.start2 + st.delta))

\* A faulty "no match" branch: the patch is reported as applied.
applyMissReportsTrue(st) ==
    [st EXCEPT !.results = Append(@, TRUE), !.x = @ + 1]

\* "No match found. :(" -- the flag is false, the text is left alone and
\* the offset of the lost patch is subtracted from delta.
applyMiss(st) ==
    LET aPatch == st.patches[st.x + 1]
    IN  [st EXCEPT !.results = Append(@, FALSE),
                   !.delta = @ - (aPatch.length2 - aPatch.length1),
                   !.x = @ + 1]

\* One iteration of "for (auto& aPatch : patches)".
applyStep(settings, st, budget) ==
    LET aPatch == st.patches[st.x + 1]
        text == st.text
        expected_loc == max(0, aPatch.start2 + st.delta)
        text1 == diff_text1(aPatch.diffs)
        thr == settings.Patch_DeleteThreshold
        \* The patch was found at start_loc, where the text reads text2.
        applyAt(start_loc, text2) ==
            IF text1 = text2
            THEN [st EXCEPT !.results = Append(@, TRUE),
                            !.delta = start_loc - expected_loc,
                            !.text = substring(text, 0, start_loc) \o diff_text2(aPatch.diffs)
                                     \o substringFrom(text, start_loc + Len(text1)),
                            !.x = @ + 1]
            ELSE the({IF /\ Len(text1) > settings.Match_MaxBits
                         /\ diff_levenshtein(diffs) * thr[2] > thr[1] * Len(text1)
                      THEN [st EXCEPT !.results = Append(@, FALSE),
                                      !.delta = start_loc - expected_loc,
                                      !.x = @ + 1]
                      ELSE [st EXCEPT !.results = Append(@, TRUE),
                                      !.delta = start_loc - expected_loc,
                                      !.text = applyEdits(aPatch.diffs,
                                                          diff_cleanupSemanticLossless(diffs),
                                                          start_loc, 1, 0, text),
                                      !.x = @ + 1] :
                      diffs \in {diff_mainTimed(settings, text1, text2, FALSE, budget).diffs}})
    IN  the({IF loc.start_loc = NPOS
             THEN applyMiss(st)
             ELSE applyAt(loc.start_loc,
                          IF loc.end_loc = NPOS
                          THEN substring(text, loc.start_loc,
                                         min(loc.start_loc + Len(text1), Len(text))
                                         - loc.start_loc)
                          ELSE substring(text, loc.start_loc,
                                         min(loc.end_loc + settings.Match_MaxBits, Len(text))
                                         - loc.start_loc)) :
             loc \in {applyWhere(settings, st)}})

\* patch_apply up to the loop: copy, pad, split.  The result flags are sized
\* to the list as it is after the split; they are filled in order, so the
\* model appends them.
applyPadded(settings, patches, text) ==
    [patches |-> patch_addPadding(settings, patches),
     text |-> nullPaddingOf(settings) \o text \o nullPaddingOf(settings),
     x |-> 0, delta |-> 0, results |-> <<>>]

\* "Strip the padding off."
applyStrip(settings, text) ==
    substring(text, settings.Patch_Margin, Len(text) - 2 * settings.Patch_Margin)

RECURSIVE applyLoop(_, _, _)
applyLoop(settings, st, budget) ==
    IF st.x >= Len(st.patches) THEN st
    ELSE applyLoop(settings, applyStep(settings, st, budget), budget)

\* The whole call: [hang, text2, results].
patch_apply(settings, patches, text, budget) ==
    IF Len(patches) = 0 THEN [hang |-> FALSE, text2 |-> text, results |-> <<>>]
    ELSE the({the({IF split.hang
                   THEN [hang |-> TRUE, text2 |-> padded.text, results |-> <<>>]
                   ELSE the({[hang |-> FALSE, text2 |-> applyStrip(settings, st.text),
                              results |-> st.results] :
                             st \in {applyLoop(settings,
                                               [padded EXCEPT !.patches = split.patches],
                                               budget)}}) :
                   split \in {patch_splitMax(settings, padded.patches)}}) :
              padded \in {applyPadded(settings, patches, text)}})

(***************************************************************************)
(* Text encodings: encodeURI, percent_decode, decimal numbers              *)
(***************************************************************************)
\* The characters of safe_chars; the loop that fills the table also covers
\* the terminating NUL of the literal.
safe_chars ==
    <<48, 49, 50, 51, 52, 53, 54, 55, 56, 57>>
    \o [i \in 1..26 |-> 64 + i] \o [i \in 1..26 |-> 96 + i]
    \o <<45, 95, 46, 126, 32, 33, 42, 39, 40, 41, 59, 47, 63, 58, 64, 38, 61, 43, 36, 44, 35, 0>>

isSafe(c) == \E i \in 1..Len(safe_chars) : safe_chars[i] = c

\* hex_output_chars: the first sixteen safe characters, lower-cased.
hex_output_chars(v) == IF v < 10 THEN 48 + v ELSE 97 + (v - 10)

\* utf32_from_utf8::from_utf32: the UTF-8 bytes of one code point.
from_utf32(u) ==
    IF u < 128 THEN <<u>>
    ELSE IF u < 2048 THEN <<(u \div 64) + 192, (u % 64) + 128>>
    ELSE IF u < 65536
    THEN <<(u \div 4096) + 224, ((u \div 64) % 64) + 128, (u % 64) + 128>>
    ELSE <<(u \div 262144) + 240, ((u \div 4096) % 64) + 128,
           ((u \div 64) % 64) + 128, (u % 64) + 128>>

escapeByte(b) ==
    IF isSafe(b) THEN <<b>>
    ELSE <<37, hex_output_chars(b \div 16), hex_output_chars(b % 16)>>

RECURSIVE escapeBytes(_)
escapeBytes(bytes) ==
    IF bytes = <<>> THEN <<>> ELSE escapeByte(Head(bytes)) \o escapeBytes(Tail(bytes))

RECURSIVE escapeAll(_)
escapeAll(str) ==
    IF str = <<>> THEN <<>> ELSE escapeBytes(from_utf32(Head(str))) \o escapeAll(Tail(str))

encodeURI(str) ==
    IF \E i \in 1..Len(str) : str[i] >= 128 \/ ~isSafe(str[i])
    THEN escapeAll(str)
    ELSE str

\* hex_digit_value: -1 stands for "return false".
hex_digit_value(c) ==
    IF c >= 48 /\ c <= 57 THEN c - 48
    ELSE IF c >= 65 /\ c <= 70 THEN c - 55
    ELSE IF c >= 97 /\ c <= 102 THEN c - 87
    ELSE -1

\* First loop of percent_decode: %xx to one unit.  A '%' whose two digits
\* are not both inside the string makes the loop read past the buffer; the
\* model answers failure there.
RECURSIVE unescape(_, _, _)
unescape(str, i, out) ==
    IF i > Len(str) THEN [ok |-> TRUE, units |-> out]
    ELSE IF str[i] # 37 THEN unescape(str, i + 1, Append(out, str[i]))
    ELSE IF i + 2 > Len(str) THEN [ok |-> FALSE, units |-> out]
    ELSE LET h1 == hex_digit_value(str[i + 1])
             h2 == hex_digit_value(str[i + 2])
         IN  IF h1 < 0 \/ h2 < 0 THEN [ok |-> FALSE, units |-> out]
             ELSE unescape(str, i + 3, Append(out, h1 * 16 + h2))

\* utf32_from_utf8::to_utf32 from 0-based position i: the position it
\* returns and the code point it leaves in u.  A continuation unit is read
\* but never stepped over, and a three- or four-unit sequence reads the
\* same unit for every part.
RECURSIVE to_utf32(_, _, _)
to_utf32(units, i, u0) ==
    IF i = Len(units) THEN [i |-> i, u |-> u0]
    ELSE LET u == units[i + 1]
             n == i + 1
             cont == n < Len(units) /\ (units[n + 1] \div 64) % 4 = 2
             c == IF n < Len(units) THEN units[n + 1] % 64 ELSE 0
         IN  IF u < 128 THEN [i |-> n, u |-> u]
             ELSE IF u \div 32 = 6
             THEN IF cont THEN [i |-> n, u |-> (u % 32) * 64 + c]
                  ELSE to_utf32(units, n, u)
             ELSE IF u \div 16 = 14
             THEN IF cont THEN [i |-> n, u |-> (u % 16) * 4096 + c * 64 + c]
                  ELSE to_utf32(units, n, u)
             ELSE IF u \div 8 = 30
             THEN IF cont THEN [i |-> n, u |-> (u % 8) * 262144 + c * 4096 + c * 64 + c]
                  ELSE to_utf32(units, n, u)
             ELSE to_utf32(units, n, u)

\* "Decode UTF-8 string in-place".
RECURSIVE utf8Decode(_, _, _, _)
utf8Decode(units, i, u0, out) ==
    IF i = Len(units) THEN out
    ELSE LET r == to_utf32(units, i, u0)
         IN  utf8Decode(units, r.i, r.u, Append(out, r.u))

\* A faulty replacement: every '+' becomes a space before the decoding.
plusesToSpaces(str) == [i \in 1..Len(str) |-> IF str[i] = 43 THEN 32 ELSE str[i]]

RECURSIVE replacePluses(_)
replacePluses(str) ==
    IF str = <<>> THEN <<>>
    ELSE (IF Head(str) = 43 THEN <<37, 50, 98>> ELSE <<Head(str)>>) \o replacePluses(Tail(str))

\* string_pool::percent_decode(str, true): [ok, str].
percent_decode(str) ==
    IF ~\E i \in 1..Len(str) : str[i] = 43 \/ str[i] = 37 \/ str[i] >= 128
    THEN [ok |-> TRUE, str |-> str]
    ELSE LET r == unescape(replacePluses(str), 1, <<>>)
         IN  IF ~r.ok THEN [ok |-> FALSE, str |-> str]
             ELSE [ok |-> TRUE, str |-> utf8Decode(r.units, 0, 0, <<>>)]

\* A non-negative number written to a stream, in decimal.
RECURSIVE writeNumber(_)
writeNumber(n) ==
    IF n < 10 THEN <<48 + n>> ELSE writeNumber(n \div 10) \o <<48 + (n % 10)>>

\* parseInt on a run of characters: [ok, v]; an optional sign, then digits
\* only, and at least one of them.  toIntegerInt2 reads a character as the
\* digit (c - '0') narrowed to uint8_t: every character whose code is 48..57
\* modulo 256 counts as a digit (U+0130..U+0139 for instance).
RECURSIVE digitsValue(_, _)
digitsValue(str, acc) ==
    IF str = <<>> THEN acc ELSE digitsValue(Tail(str), acc * 10 + ((Head(str) - 48) % 256))

parseInt(str) ==
    LET sign == str # <<>> /\ (Head(str) = 45 \/ Head(str) = 43)
        body == IF sign THEN Tail(str) ELSE str
    IN  IF body = <<>> \/ \E i \in 1..Len(body) : (body[i] - 48) % 256 > 9
        THEN [ok |-> FALSE, v |-> 0]
        ELSE [ok |-> TRUE,
              v |-> IF Head(str) = 45 THEN 0 - digitsValue(body, 0) ELSE digitsValue(body, 0)]

\* nextLine: [ok, line, start].
nextLine(text, start, length, separator) ==
    IF start >= length THEN [ok |-> FALSE, line |-> <<>>, start |-> start]
    ELSE LET found == indexOf(text, <<separator>>, start)
             p == IF found = NPOS THEN length ELSE found
         IN  [ok |-> TRUE, line |-> substring(text, start, p - start), start |-> p + 1]

(***************************************************************************)
(* diff_toDelta, diff_fromDelta                                            *)
(***************************************************************************)
deltaToken(d) ==
    IF d.operation = INSERT THEN <<43>> \o encodeURI(d.text)
    ELSE IF d.operation = DELETE THEN <<45>> \o writeNumber(Len(d.text))
    ELSE <<61>> \o writeNumber(Len(d.text))

RECURSIVE diff_toDelta(_)
diff_toDelta(diffs) ==
    IF diffs = <<>> THEN <<>>
    ELSE IF Len(diffs) = 1 THEN deltaToken(diffs[1])
    ELSE diff_toDelta(SubSeq(diffs, 1, Len(diffs) - 1)) \o <<tab>> \o deltaToken(diffs[Len(diffs)])

\* The token loop of diff_fromDelta: [ok, diffs]; on failure the entries
\* read so far stay in the list.
\* For a token of one character token.substring(1) is the default view,
\* whose data pointer is null: toIntegerInt answers nullptr for the empty
\* run, parseInt compares that with the end of the run, null as well, and
\* the missing count is read as 0.
RECURSIVE fromDeltaLoop(_, _, _, _, _)
fromDeltaLoop(text1, delta, start, pointer, diffs) ==
    LET nl == nextLine(delta, start, Len(delta), tab)
        token == nl.line
        param == substringFrom(token, 1)
        dec == percent_decode(param)
        n == IF Len(token) = 1 THEN [ok |-> TRUE, v |-> 0] ELSE parseInt(param)
    IN  IF ~nl.ok THEN [ok |-> pointer = Len(text1), diffs |-> diffs]
        ELSE IF Len(token) = 0 THEN fromDeltaLoop(text1, delta, nl.start, pointer, diffs)
        ELSE IF token[1] = 43
        THEN IF ~dec.ok THEN [ok |-> FALSE, diffs |-> diffs]
             ELSE fromDeltaLoop(text1, delta, nl.start, pointer,
                                Append(diffs, diff_t(INSERT, dec.str)))
        ELSE IF token[1] = 45 \/ token[1] = 61
        THEN IF ~n.ok \/ n.v < 0 \/ pointer >= Len(text1)
             THEN [ok |-> FALSE, diffs |-> diffs]
             ELSE fromDeltaLoop(text1, delta, nl.start, pointer + n.v,
                      Append(diffs, diff_t(IF token[1] = 61 THEN EQUAL ELSE DELETE,
                                           substring(text1, pointer, n.v))))
        ELSE [ok |-> FALSE, diffs |-> diffs]

diff_fromDelta(text1, delta) == fromDeltaLoop(text1, delta, 0, 0, <<>>)

(***************************************************************************)
(* patch::toString, patch_toText, patch_fromText                           *)
(***************************************************************************)
\* One coordinate pair of the header.
headerCoords(start, length) ==
    IF length = 0 THEN writeNumber(start) \o <<44, 48>>
    ELSE IF length = 1 THEN writeNumber(start + 1)
    ELSE writeNumber(start + 1) \o <<44>> \o writeNumber(length)

RECURSIVE patchBody(_)
patchBody(diffs) ==
    IF diffs = <<>> THEN <<>>
    ELSE <<(IF Head(diffs).operation = INSERT THEN 43
            ELSE IF Head(diffs).operation = DELETE THEN 45 ELSE 32)>>
         \o encodeURI(Head(diffs).text) \o <<eol>> \o patchBody(Tail(diffs))

toString(p) ==
    <<64, 64, 32, 45>> \o headerCoords(p.start1, p.length1) \o <<32, 43>>
    \o headerCoords(p.start2, p.length2) \o <<32, 64, 64, eol>> \o patchBody(p.diffs)

RECURSIVE patch_toText(_)
patch_toText(patches) ==
    IF patches = <<>> THEN <<>> ELSE toString(Head(patches)) \o patch_toText(Tail(patches))

\* The character at 0-based position k of a line; past the line the
\* scanner meets a character that matches none of its tests.
lineAt(line, k) == IF k < Len(line) THEN line[k + 1] ELSE 0

\* "do { start1++; } while (--l > 0 && isDigit(*++t))".  l is unsigned, so
\* l > 0 is l # 0; a wrapped l is a negative number here.
RECURSIVE headerRun1(_, _, _, _)
headerRun1(line, t, l, count) ==
    IF l - 1 # 0 /\ isDigit(lineAt(line, t + 1))
    THEN headerRun1(line, t + 1, l - 1, count + 1)
    ELSE [t |-> IF l - 1 # 0 THEN t + 1 ELSE t, l |-> l - 1, count |-> count + 1]

\* "do { start2++; --l; } while (isDigit(*++t))".
RECURSIVE headerRun2(_, _, _, _)
headerRun2(line, t, l, count) ==
    IF isDigit(lineAt(line, t + 1))
    THEN headerRun2(line, t + 1, l - 1, count + 1)
    ELSE [t |-> t + 1, l |-> l - 1, count |-> count + 1]

\* "if (l > 0 && *t == ',') { ++t; --l; }"
headerComma(line, st) ==
    IF st.l # 0 /\ lineAt(line, st.t) = 44
    THEN [st EXCEPT !.t = @ + 1, !.l = @ - 1] ELSE st

\* "while (l > 0 && isDigit(*t)) { --l; length++; t++; }"
RECURSIVE headerDigits(_, _, _, _)
headerDigits(line, t, l, count) ==
    IF l # 0 /\ isDigit(lineAt(line, t))
    THEN headerDigits(line, t + 1, l - 1, count + 1)
    ELSE [t |-> t, l |-> l, count |-> count]

\* One coordinate pair as patch_fromText reads it.
headerValue(line, sp, startCount, lp, lengthCount) ==
    LET start == parseInt(substring(line, sp, startCount)).v
    IN  IF lengthCount = 0 THEN [start |-> start - 1, length |-> 1]
        ELSE IF lengthCount = 1 /\ lineAt(line, lp) = 48 THEN [start |-> start, length |-> 0]
        ELSE [start |-> start - 1, length |-> parseInt(substring(line, lp, lengthCount)).v]

\* The hand-written replacement of the header pattern: [ok, patch].
parseHeader(line) ==
    LET l0 == Len(line) - 9
        head == /\ l0 # 0 /\ lineAt(line, 0) = 64 /\ lineAt(line, 1) = 64
                /\ lineAt(line, 2) = 32 /\ lineAt(line, 3) = 45 /\ isDigit(lineAt(line, 4))
        s1 == headerRun1(line, 4, l0, 0)
        c1 == headerComma(line, s1)
        l1 == headerDigits(line, c1.t, c1.l, 0)
        mid == /\ l1.l # 0 /\ lineAt(line, l1.t) = 32 /\ lineAt(line, l1.t + 1) = 43
               /\ isDigit(lineAt(line, l1.t + 2))
        s2 == headerRun2(line, l1.t + 2, l1.l, 0)
        c2 == headerComma(line, s2)
        l2 == headerDigits(line, c2.t, c2.l, 0)
        tail == /\ l2.l = 0 /\ lineAt(line, l2.t) = 32 /\ lineAt(line, l2.t + 1) = 64
                /\ lineAt(line, l2.t + 2) = 64
        v1 == headerValue(line, 4, s1.count, c1.t, l1.count)
        v2 == headerValue(line, l1.t + 2, s2.count, c2.t, l2.count)
    IN  IF head /\ mid /\ tail
        THEN [ok |-> TRUE, patch |-> patch_t(<<>>, v1.start, v2.start, v1.length, v2.length)]
        ELSE [ok |-> FALSE, patch |-> nullPatch]

\* A faulty body loop: a line with an unknown sign is taken as an equality.
RECURSIVE fromTextBodyAnySign(_, _, _, _)
fromTextBodyAnySign(textline, start, line, diffs) ==
    LET nl == nextLine(textline, start, Len(textline), eol)
        sign == nl.line[1]
        dec == percent_decode(substringFrom(nl.line, 1))
    IN  IF ~nl.ok THEN [status |-> "end", diffs |-> diffs, line |-> line, start |-> start]
        ELSE IF Len(nl.line) <= 0 THEN fromTextBodyAnySign(textline, nl.start, nl.line, diffs)
        ELSE IF sign = 64
        THEN [status |-> "next", diffs |-> diffs, line |-> nl.line, start |-> nl.start]
        ELSE IF ~dec.ok
        THEN [status |-> "fail", diffs |-> diffs, line |-> nl.line, start |-> nl.start]
        ELSE fromTextBodyAnySign(textline, nl.start, dec.str,
                 Append(diffs, diff_t(IF sign = 45 THEN DELETE
                                      ELSE IF sign = 43 THEN INSERT ELSE EQUAL, dec.str)))

\* The body loop of one patch: [status, diffs, line, start].  status is
\* "next" when a line starting with '@' ended the body, "end" when the text
\* ran out, "fail" on a bad line.  `line` is the view the loop leaves behind.
RECURSIVE fromTextBody(_, _, _, _)
fromTextBody(textline, start, line, diffs) ==
    LET nl == nextLine(textline, start, Len(textline), eol)
        sign == nl.line[1]
        dec == percent_decode(substringFrom(nl.line, 1))
    IN  IF ~nl.ok THEN [status |-> "end", diffs |-> diffs, line |-> line, start |-> start]
        ELSE IF Len(nl.line) <= 0 THEN fromTextBody(textline, nl.start, nl.line, diffs)
        ELSE IF sign = 64
        THEN [status |-> "next", diffs |-> diffs, line |-> nl.line, start |-> nl.start]
        ELSE IF ~dec.ok
        THEN [status |-> "fail", diffs |-> diffs, line |-> nl.line, start |-> nl.start]
        ELSE IF sign = 45
        THEN fromTextBody(textline, nl.start, dec.str, Append(diffs, diff_t(DELETE, dec.str)))
        ELSE IF sign = 43
        THEN fromTextBody(textline, nl.start, dec.str, Append(diffs, diff_t(INSERT, dec.str)))
        ELSE IF sign = 32
        THEN fromTextBody(textline, nl.start, dec.str, Append(diffs, diff_t(EQUAL, dec.str)))
        ELSE [status |-> "fail", diffs |-> diffs, line |-> dec.str, start |-> nl.start]

\* The loop "while (true)": it is left only by a return false.  When the
\* text has run out the loop goes round again on the line it holds; if that
\* line reads as a header the same patch is pushed for ever.
RECURSIVE fromTextLoop(_, _, _, _)
fromTextLoop(textline, line, start, patches) ==
    LET h == parseHeader(line)
        b == fromTextBody(textline, start, line, <<>>)
        pushed == Append(patches, [h.patch EXCEPT !.diffs = b.diffs])
    IN  IF ~h.ok THEN [ok |-> FALSE, hang |-> FALSE, patches |-> patches]
        ELSE IF b.status = "fail" THEN [ok |-> FALSE, hang |-> FALSE, patches |-> patches]
        ELSE IF b.status = "next" THEN fromTextLoop(textline, b.line, b.start, pushed)
        ELSE IF parseHeader(b.line).ok THEN [ok |-> FALSE, hang |-> TRUE, patches |-> pushed]
        ELSE [ok |-> FALSE, hang |-> FALSE, patches |-> pushed]

\* patch_fromText: [ok, hang, patches]; ok is the bool it returns.
patch_fromText(textline) ==
    LET nl == nextLine(textline, 0, Len(textline), eol)
    IN  IF ~nl.ok THEN [ok |-> TRUE, hang |-> FALSE, patches |-> <<>>]
        ELSE fromTextLoop(textline, nl.line, nl.start, <<>>)

\* The container a wrapper returns (diff_match_patch::patch_fromText,
\* diff_fromDelta): null is set when the parser returned false.
container(ok, elements) == [null |-> ~ok, elements |-> elements]
\* container_base::size
containerSize(c) == IF c.null THEN 0 ELSE Len(c.elements)
\* container_base::operator==(const elements_t&)
containerEquals(c, elements) == ~c.null /\ c.elements = elements

(***************************************************************************)
(* The client program: one diff_match_patch object, two texts, and the     *)
(* calls diff_main, patch_make, patch_splitMax, patch_apply, patch_toText  *)
(* and patch_fromText made on them.                                        *)
(***************************************************************************)
VARIABLES
    pc,        \* where the client is
    settings,  \* the settings fields of the diff_match_patch object
    text1,     \* the old text a
    text2,     \* the new text b
    diffs,     \* the script diff_main returned
    patches,   \* the patch list patch_make returned (split in place by patch_splitMax)
    target,    \* the text handed to patch_apply
    ap,        \* patch_apply's working state: its copy of the list, text, x, delta, results
    result,    \* what patch_apply returned: text2 and results
    ptext,     \* the text patch_toText returned
    parsed,    \* the container patch_fromText returned
    script,    \* a diff script handed to diff_cleanupMerge / diff_toDelta
    merged,    \* the script as the cleanup called on it left it
    delta,     \* the text diff_toDelta returned
    decoded,   \* the container diff_fromDelta returned
    deadline,  \* the clock handed to diff_main / diff_bisect
    encoded,   \* what diff_linesToChars returned: the two encoded strings and the line table
    found,     \* the location match_main returned
    distance,  \* the number diff_levenshtein returned
    searched,  \* patch_apply: where each patch so far was expected and where it was found
    score,     \* the score match_bitapScore returned, with the errors and locations it was given
    outOfRange \* diff_bisect: whether a frontier array was read or written out of range

vars == <<pc, settings, text1, text2, diffs, patches, target, ap, result, ptext, parsed,
          script, merged, delta, decoded, deadline, encoded, found, distance, searched,
          score, outOfRange>>

\* Settings as dmp_settings.h constructs them.
Defaults ==
    [Diff_Timeout |-> 1, Diff_EditCost |-> 4, Match_Threshold |-> <<1, 2>>,
     Match_Distance |-> 1000, Patch_DeleteThreshold |-> <<1, 2>>,
     Patch_Margin |-> 4, Match_MaxBits |-> 32]
\* Exact matching only and no diff deadline (the values applyTest sets for
\* "Compensate for failed patch", with Diff_Timeout 0).
Strict ==
    [Defaults EXCEPT !.Diff_Timeout = 0, !.Match_Threshold = <<0, 1>>, !.Match_Distance = 0]
\* Short patches: one character of context, patterns of at most four.
Small == [Defaults EXCEPT !.Patch_Margin = 1, !.Match_MaxBits = 4]
\* Two characters of context, patterns of at most four: 0 < Patch_Margin <
\* Match_MaxBits, and two contexts fill a pattern.
Narrow == [Defaults EXCEPT !.Patch_Margin = 2, !.Match_MaxBits = 4]
SettingsSet == {Defaults, Strict, Small}

Alphabet == {97, 98}
Texts == UNION {[1..n -> Alphabet] : n \in 0..MaxLen}

RECURSIVE rep(_, _)
rep(str, n) == IF n = 0 THEN <<>> ELSE str \o rep(str, n - 1)

\* Texts of more than 100 characters, made of lines, for the line mode.
LongA == rep(<<97, 98, 99, 10>>, 26)
LongB == rep(<<97, 98, 99, 10>>, 13) \o <<120, 10>> \o rep(<<97, 98, 99, 10>>, 13)
LongC == rep(<<97, 98, 99, 10>>, 13) \o <<97, 120, 99, 10>> \o rep(<<97, 98, 99, 10>>, 12)
\* "abbbb" and "bbabb"
Abbbb == <<97, 98, 98, 98, 98>>
Bbabb == <<98, 98, 97, 98, 98>>
\* "baaaaaaaaab" and "caaaaaaaaac": two edits more than 2 * Patch_Margin apart
Baaab == <<98>> \o rep(<<97>>, 9) \o <<98>>
Caaac == <<99>> \o rep(<<97>>, 9) \o <<99>>
\* "abcdefghijklmnopqrstuvwxyz0123", the same with "XX" inserted after "ab",
\* 'o' replaced by 'Y' and '1' by 'Z' (three edits, each more than
\* 2 * Patch_Margin from the next), and the first with 'b' replaced by 'Q'.
Letters ==
    <<97, 98, 99, 100, 101, 102, 103, 104, 105, 106, 107, 108, 109, 110, 111,
      112, 113, 114, 115, 116, 117, 118, 119, 120, 121, 122, 48, 49, 50, 51>>
LettersEdited ==
    <<97, 98, 88, 88, 99, 100, 101, 102, 103, 104, 105, 106, 107, 108, 109,
      110, 89, 112, 113, 114, 115, 116, 117, 118, 119, 120, 121, 122, 48, 90, 50, 51>>
LettersDamaged ==
    <<97, 81, 99, 100, 101, 102, 103, 104, 105, 106, 107, 108, 109, 110, 111,
      112, 113, 114, 115, 116, 117, 118, 119, 120, 121, 122, 48, 49, 50, 51>>
\* "abccccccccccd" and "abd": a deletion of more than 2 * Match_MaxBits
\* characters under the settings Small, with context on both sides.
Abcd == <<97, 98>> \o rep(<<99>>, 10) \o <<100>>
Abd == <<97, 98, 100>>
ExtraPairs == {<<LongA, LongB>>, <<LongA, LongC>>, <<Abbbb, Bbabb>>, <<Baaab, Caaac>>}

\* What the clock allows a diff: the number of deadline checks it passes.
Plenty == 1000
Budgets == {0, 1, Plenty}

\* The locations handed to match_main: inside the texts, just past them, far off.
Locs == 0..(MaxLen + 1) \cup {1000}

idleAp == [patches |-> <<>>, text |-> <<>>, x |-> 0, delta |-> 0, results |-> <<>>]
idleResult == [text2 |-> <<>>, results |-> <<>>]
idleContainer == [null |-> FALSE, elements |-> <<>>]
idleScore == [e |-> 0, x |-> 0, loc |-> 0, value |-> <<0, 1>>]
idleEncoded == [chars1 |-> <<>>, chars2 |-> <<>>, lines |-> <<>>]

Init ==
    /\ pc = "start"
    /\ \/ settings \in SettingsSet /\ text1 \in Texts /\ text2 \in Texts
       \/ settings = Defaults /\ \E p \in ExtraPairs : text1 = p[1] /\ text2 = p[2]
       \/ settings = Strict /\ text1 = Letters /\ text2 = LettersEdited
       \/ settings = Small /\ text1 = Abcd /\ text2 = Abd
       \/ settings = Narrow /\ text1 \in {Abcd, Abbbb} /\ text2 \in {Abd, Bbabb}
    /\ diffs = <<>> /\ patches = <<>> /\ target = <<>>
    /\ ap = idleAp /\ result = idleResult
    /\ ptext = <<>> /\ parsed = idleContainer
    /\ script = <<>> /\ merged = <<>> /\ delta = <<>> /\ decoded = idleContainer
    /\ deadline = NoDeadline
    /\ encoded = idleEncoded
    /\ found = NPOS
    /\ distance = 0
    /\ searched = <<>>
    /\ score = idleScore
    /\ outOfRange = FALSE

\* diff_main(text1, text2, checklines); the clock is the deadline it set.
DiffMain ==
    /\ pc = "start"
    /\ \E checklines \in BOOLEAN, budget \in Budgets :
           /\ \E r \in {diff_mainTimed(settings, text1, text2, checklines, budget)} :
                  diffs' = r.diffs /\ outOfRange' = r.oob
           /\ deadline' = IF settings.Diff_Timeout > 0 THEN budget ELSE NoDeadline
    /\ pc' = "diffed"
    /\ UNCHANGED <<settings, text1, text2, patches, target, ap, result, ptext, parsed,
                   script, merged, delta, decoded, encoded, found, distance, searched,
                   score>>

\* diff_bisect(text1, text2, deadline) called as diff_compute calls it: on two
\* texts of which the shorter has more than one character.
Bisect ==
    /\ pc = "start" /\ Len(text1) > 1 /\ Len(text2) > 1
    /\ \E clk \in Budgets \cup {NoDeadline} :
           /\ \E r \in {diff_bisect(settings, text1, text2, clk)} :
                  diffs' = r.diffs /\ outOfRange' = r.oob
           /\ deadline' = clk
    /\ pc' = "bisected"
    /\ UNCHANGED <<settings, text1, text2, patches, target, ap, result, ptext, parsed,
                   script, merged, delta, decoded, encoded, found, distance, searched,
                   score>>

\* match_main(text1, text2, loc): text2 is searched for in text1 near loc.
\* The pattern is one match_bitap can take: no longer than Match_MaxBits.
MatchMain ==
    /\ pc = "start" /\ Len(text2) <= settings.Match_MaxBits
    /\ \E loc \in Locs : found' = match_main(settings, text1, text2, loc)
    /\ pc' = "matched"
    /\ UNCHANGED <<settings, text1, text2, diffs, patches, target, ap, result, ptext, parsed,
                   script, merged, delta, decoded, deadline, encoded, distance, searched,
                   score, outOfRange>>

\* match_bitapScore(e, x, loc, text2) as match_bitap calls it: for a pattern
\* that is not empty and fits the bitap word, a number of errors below its
\* length and a position in text1.
BitapScore ==
    /\ pc = "start" /\ Len(text2) > 0 /\ Len(text2) <= settings.Match_MaxBits
    /\ \E e \in 0..(Len(text2) - 1), x \in 0..Len(text1), loc \in Locs :
           score' = [e |-> e, x |-> x, loc |-> loc,
                     value |-> match_bitapScore(settings, e, x, loc, text2)]
    /\ pc' = "scored"
    /\ UNCHANGED <<settings, text1, text2, diffs, patches, target, ap, result, ptext, parsed,
                   script, merged, delta, decoded, deadline, encoded, found, distance,
                   searched, outOfRange>>

\* patch_make(text1, text2); it may never return.
PatchMake ==
    /\ pc = "start"
    /\ \E budget \in Budgets :
           \E r \in {patch_make(settings, text1, text2, budget)} :
               /\ patches' = r.patches
               /\ pc' = IF r.hang THEN "make_hung" ELSE "made"
    /\ UNCHANGED <<settings, text1, text2, diffs, target, ap, result, ptext, parsed,
                   script, merged, delta, decoded, deadline, encoded, found, distance,
                   searched, score, outOfRange>>

\* patch_splitMax(patches) called by the client on the list it got.
SplitMax ==
    /\ pc = "made"
    /\ \E r \in {patch_splitMax(settings, patches)} :
           /\ patches' = r.patches
           /\ pc' = IF r.hang THEN "split_hung" ELSE "split"
    /\ UNCHANGED <<settings, text1, text2, diffs, target, ap, result, ptext, parsed,
                   script, merged, delta, decoded, deadline, encoded, found, distance,
                   searched, score, outOfRange>>

\* patch_apply(patches, t) on an empty list returns at once.
ApplyEmpty ==
    /\ pc = "made" /\ Len(patches) = 0
    /\ \E t \in Texts \cup {text1} :
           /\ target' = t
           /\ result' = [text2 |-> t, results |-> <<>>]
    /\ pc' = "applied"
    /\ UNCHANGED <<settings, text1, text2, diffs, patches, ap, ptext, parsed,
                   script, merged, delta, decoded, deadline, encoded, found, distance,
                   searched, score, outOfRange>>

\* A faulty start of patch_apply: the padding is added to the caller's list
\* itself, which the working state then shares.
ApplyPadInPlace ==
    /\ pc = "made" /\ Len(patches) # 0
    /\ \E t \in Texts \cup {text1} :
           /\ target' = t
           /\ ap' = applyPadded(settings, patches, t)
           /\ patches' = applyPadded(settings, patches, t).patches
    /\ pc' = "padded" /\ searched' = <<>>
    /\ UNCHANGED <<settings, text1, text2, diffs, result, ptext, parsed,
                   script, merged, delta, decoded, deadline, encoded, found, distance,
                   score, outOfRange>>

\* patch_apply(patches, t): the copy of the list is padded.
ApplyPad ==
    /\ pc = "made" /\ Len(patches) # 0
    /\ \E t \in Texts \cup {text1} \cup (IF text1 = Letters THEN {LettersDamaged} ELSE {}) :
           /\ target' = t
           /\ ap' = applyPadded(settings, patches, t)
    /\ pc' = "padded" /\ searched' = <<>>
    /\ UNCHANGED <<settings, text1, text2, diffs, patches, result, ptext, parsed,
                   script, merged, delta, decoded, deadline, encoded, found, distance,
                   score, outOfRange>>

\* patch_apply: the padded copy is split; the split may never return.
ApplySplit ==
    /\ pc = "padded"
    /\ \E r \in {patch_splitMax(settings, ap.patches)} :
           /\ ap' = [ap EXCEPT !.patches = r.patches]
           /\ pc' = IF r.hang THEN "apply_hung" ELSE "applying"
    /\ UNCHANGED <<settings, text1, text2, diffs, patches, target, result, ptext, parsed,
                   script, merged, delta, decoded, deadline, encoded, found, distance,
                   searched, score, outOfRange>>

\* patch_apply: one iteration of the loop over the patches.
ApplyStep ==
    /\ pc = "applying" /\ ap.x < Len(ap.patches)
    /\ \E budget \in Budgets : ap' = applyStep(settings, ap, budget)
    /\ searched' = Append(searched,
                          [expected_loc |-> max(0, ap.patches[ap.x + 1].start2 + ap.delta),
                           start_loc |-> applyWhere(settings, ap).start_loc])
    /\ UNCHANGED <<pc, settings, text1, text2, diffs, patches, target, result, ptext, parsed,
                   script, merged, delta, decoded, deadline, encoded, found, distance,
                   score, outOfRange>>

\* A faulty end of patch_apply: only as many flags as the caller's list has
\* patches are returned.
ApplyEndCallerFlags ==
    /\ pc = "applying" /\ ap.x >= Len(ap.patches)
    /\ result' = [text2 |-> applyStrip(settings, ap.text),
                  results |-> SubSeq(ap.results, 1, Len(patches))]
    /\ pc' = "applied"
    /\ UNCHANGED <<settings, text1, text2, diffs, patches, target, ap, ptext, parsed,
                   script, merged, delta, decoded, deadline, encoded, found, distance,
                   searched, score, outOfRange>>

\* patch_apply: the padding is stripped and the result returned.
ApplyEnd ==
    /\ pc = "applying" /\ ap.x >= Len(ap.patches)
    /\ result' = [text2 |-> applyStrip(settings, ap.text), results |-> ap.results]
    /\ pc' = "applied"
    /\ UNCHANGED <<settings, text1, text2, diffs, patches, target, ap, ptext, parsed,
                   script, merged, delta, decoded, deadline, encoded, found, distance,
                   searched, score, outOfRange>>

\* patch_toText(patches)
PatchToText ==
    /\ pc = "made"
    /\ ptext' = patch_toText(patches)
    /\ pc' = "texted"
    /\ UNCHANGED <<settings, text1, text2, diffs, patches, target, ap, result, parsed,
                   script, merged, delta, decoded, deadline, encoded, found, distance,
                   searched, score, outOfRange>>

\* patch_fromText(ptext) through the wrapper; it may never return.
PatchFromText ==
    /\ pc = "texted"
    /\ \E r \in {patch_fromText(ptext)} :
           /\ parsed' = container(r.ok, r.patches)
           /\ pc' = IF r.hang THEN "parse_hung" ELSE "parsed"
    /\ UNCHANGED <<settings, text1, text2, diffs, patches, target, ap, result, ptext,
                   script, merged, delta, decoded, deadline, encoded, found, distance,
                   searched, score, outOfRange>>

Next ==
    \/ DiffMain \/ Bisect \/ MatchMain \/ BitapScore \/ PatchMake \/ SplitMax
    \/ ApplyEmpty \/ ApplyPad \/ ApplySplit \/ ApplyStep \/ ApplyEnd
    \/ PatchToText \/ PatchFromText

Spec == Init /\ [][Next]_vars

(***************************************************************************)
(* A second client: it builds a diff script by hand and passes it to       *)
(* diff_cleanupMerge, or to diff_toDelta and then diff_fromDelta.          *)
(***************************************************************************)
MaxScript == 3
MaxText == 2
\* 'a', 'b' and U+00E9
ScriptAlphabet == {97, 98, 233}
ScriptTexts == UNION {[1..n -> ScriptAlphabet] : n \in 0..MaxText}
ScriptEntries == {diff_t(op, t) : op \in Operation, t \in ScriptTexts}
Scripts == UNION {[1..n -> ScriptEntries] : n \in 0..MaxScript}

\* A deletion followed by an insertion, each of up to MaxLen characters.
OverlapScripts == {<<diff_t(DELETE, d), diff_t(INSERT, i)>> : d \in Texts, i \in Texts}

\* Edits on both sides of an equality: a deletion and an insertion before
\* it and after it, or three of the four.
EditTexts == {<<97>>, <<98>>}
EqualTexts == (Texts \ {<<>>}) \cup {<<97, 98, 97, 98>>}
EfficiencyScripts ==
    UNION {{<<diff_t(DELETE, d), diff_t(INSERT, i), diff_t(EQUAL, e),
              diff_t(DELETE, d2), diff_t(INSERT, i2)>>,
            <<diff_t(INSERT, i), diff_t(EQUAL, e), diff_t(DELETE, d2), diff_t(INSERT, i2)>>,
            <<diff_t(DELETE, d), diff_t(EQUAL, e), diff_t(DELETE, d2), diff_t(INSERT, i2)>>,
            <<diff_t(DELETE, d), diff_t(INSERT, i), diff_t(EQUAL, e), diff_t(INSERT, i2)>>,
            <<diff_t(DELETE, d), diff_t(INSERT, i), diff_t(EQUAL, e), diff_t(DELETE, d2)>>} :
           d \in EditTexts, i \in EditTexts, d2 \in EditTexts, i2 \in EditTexts,
           e \in EqualTexts}

ScriptInit ==
    /\ pc = "script"
    /\ script \in Scripts \cup OverlapScripts \cup EfficiencyScripts
    /\ settings = Defaults /\ text1 = <<>> /\ text2 = <<>>
    /\ diffs = <<>> /\ patches = <<>> /\ target = <<>>
    /\ ap = idleAp /\ result = idleResult
    /\ ptext = <<>> /\ parsed = idleContainer
    /\ merged = <<>> /\ delta = <<>> /\ decoded = idleContainer
    /\ deadline = NoDeadline
    /\ encoded = idleEncoded
    /\ found = NPOS
    /\ distance = 0
    /\ searched = <<>>
    /\ score = idleScore
    /\ outOfRange = FALSE

\* diff_cleanupMerge(script).  When the first pass empties the list the
\* second pass runs with a bound of SIZE_MAX and reads and writes outside
\* the list until the process faults: the call does not return.
CleanupMerge ==
    /\ pc = "script"
    /\ IF cleanupMergeCrashes(script)
       THEN pc' = "merge_crashed" /\ merged' = merged
       ELSE pc' = "merged" /\ merged' = diff_cleanupMerge(script)
    /\ UNCHANGED <<settings, text1, text2, diffs, patches, target, ap, result, ptext, parsed,
                   script, delta, decoded, deadline, encoded, found, distance, searched,
                   score, outOfRange>>

\* diff_toDelta(script)
ToDelta ==
    /\ pc = "script"
    /\ delta' = diff_toDelta(script)
    /\ pc' = "delta"
    /\ UNCHANGED <<settings, text1, text2, diffs, patches, target, ap, result, ptext, parsed,
                   script, merged, decoded, deadline, encoded, found, distance, searched,
                   score, outOfRange>>

\* diff_fromDelta(diff_text1(script), delta) through the wrapper.
FromDelta ==
    /\ pc = "delta"
    /\ LET r == diff_fromDelta(diff_text1(script), delta)
       IN  decoded' = container(r.ok, r.diffs)
    /\ pc' = "decoded"
    /\ UNCHANGED <<settings, text1, text2, diffs, patches, target, ap, result, ptext, parsed,
                   script, merged, delta, deadline, encoded, found, distance, searched,
                   score, outOfRange>>

\* diff_levenshtein(script)
Levenshtein ==
    /\ pc = "script"
    /\ distance' = diff_levenshtein(script)
    /\ pc' = "measured"
    /\ UNCHANGED <<settings, text1, text2, diffs, patches, target, ap, result, ptext, parsed,
                   script, merged, delta, decoded, deadline, encoded, found, searched,
                   score, outOfRange>>

\* diff_cleanupSemantic(script)
CleanupSemantic ==
    /\ pc = "script"
    /\ merged' = diff_cleanupSemantic(script)
    /\ pc' = "semantic"
    /\ UNCHANGED <<settings, text1, text2, diffs, patches, target, ap, result, ptext, parsed,
                   script, delta, decoded, deadline, encoded, found, distance, searched,
                   score, outOfRange>>

\* diff_cleanupSemanticLossless(script)
CleanupSemanticLossless ==
    /\ pc = "script"
    /\ merged' = diff_cleanupSemanticLossless(script)
    /\ pc' = "lossless"
    /\ UNCHANGED <<settings, text1, text2, diffs, patches, target, ap, result, ptext, parsed,
                   script, delta, decoded, deadline, encoded, found, distance, searched,
                   score, outOfRange>>

\* diff_cleanupEfficiency(script)
CleanupEfficiency ==
    /\ pc = "script"
    /\ merged' = diff_cleanupEfficiency(settings, script)
    /\ pc' = "efficient"
    /\ UNCHANGED <<settings, text1, text2, diffs, patches, target, ap, result, ptext, parsed,
                   script, delta, decoded, deadline, encoded, found, distance, searched,
                   score, outOfRange>>

ScriptNext ==
    \/ CleanupMerge \/ CleanupSemantic \/ CleanupSemanticLossless \/ CleanupEfficiency
    \/ ToDelta \/ FromDelta \/ Levenshtein

ScriptSpec == ScriptInit /\ [][ScriptNext]_vars

(***************************************************************************)
(* A third client: it receives a delta or a patch text from elsewhere and  *)
(* passes it to diff_fromDelta (with the text it has) or patch_fromText.   *)
(***************************************************************************)
MaxDelta == 4
\* '=', '-', '+', '1', tab, '%', 'x' and U+0131
DeltaAlphabet == {61, 45, 43, 49, 9, 37, 120, 305}
DeltaTexts == UNION {[1..n -> DeltaAlphabet] : n \in 0..MaxDelta}
\* "", "a" and "ab"
DeltaSources == {<<>>, <<97>>, <<97, 98>>}

\* Header lines, well-formed and not: a start ("@@ -", "@ -"), the old
\* coordinates ("1", "1,2", "1,", "x", ""), " +", the new coordinates ("1",
\* "0,0", "1,,2") and an end (" @@", " @", " @@x").
HeaderLines ==
    {b \o c1 \o <<32, 43>> \o c2 \o e :
        b \in {<<64, 64, 32, 45>>, <<64, 32, 45>>},
        c1 \in {<<49>>, <<49, 44, 50>>, <<49, 44>>, <<120>>, <<>>},
        c2 \in {<<49>>, <<48, 44, 48>>, <<49, 44, 44, 50>>},
        e \in {<<32, 64, 64>>, <<32, 64>>, <<32, 64, 64, 120>>}}
\* Body lines: "+a", "-a", " a", "xa", "+%41", "+%4", " +"
BodyLines ==
    {<<43, 97>>, <<45, 97>>, <<32, 97>>, <<120, 97>>, <<43, 37, 52, 49>>, <<43, 37, 52>>,
     <<32, 43>>}
MaxBody == 2
Bodies == UNION {[1..n -> BodyLines] : n \in 0..MaxBody}
\* What may follow the first patch: nothing, or a second header ("@@ -1 +1 @@"
\* or "@@ -1 +1 @") with at most one body line.
Seconds ==
    {<<>>} \cup {<<h>> \o b : h \in {<<64, 64, 32, 45, 49, 32, 43, 49, 32, 64, 64>>,
                                      <<64, 64, 32, 45, 49, 32, 43, 49, 32, 64>>},
                              b \in {<<>>} \cup {<<l>> : l \in BodyLines}}

RECURSIVE joinLines(_)
joinLines(lines) ==
    IF lines = <<>> THEN <<>> ELSE Head(lines) \o <<eol>> \o joinLines(Tail(lines))

PatchLines == {<<h>> \o b \o r : h \in HeaderLines, b \in Bodies, r \in Seconds}

\* Texts made of lines: up to MaxLines lines "a", "b" or "", each ended by a
\* newline, then either nothing or an unterminated "a".
MaxLines == 3
Lines == {<<97>>, <<98>>, <<>>}
LineTexts ==
    {joinLines(ls) \o end : ls \in UNION {[1..n -> Lines] : n \in 0..MaxLines},
                            end \in {<<>>, <<97>>}}
\* The alphabet caps: the ones diff_linesToChars passes, and caps in the same
\* order that texts of MaxLines lines exceed.
LineCaps == {<<maxLines1, maxLines2>>, <<2, 4>>, <<3, 5>>}

TextInit ==
    /\ \/ /\ pc = "text" /\ text1 \in DeltaSources /\ delta \in DeltaTexts
          /\ ptext = <<>> /\ text2 = <<>>
       \/ /\ pc = "texted" /\ text1 = <<>> /\ delta = <<>>
          /\ \E lines \in PatchLines : ptext = joinLines(lines)
          /\ text2 = <<>>
       \/ /\ pc = "lines" /\ text1 \in LineTexts /\ text2 \in LineTexts
          /\ delta = <<>> /\ ptext = <<>>
    /\ settings = Defaults
    /\ diffs = <<>> /\ patches = <<>> /\ target = <<>>
    /\ ap = idleAp /\ result = idleResult
    /\ parsed = idleContainer
    /\ script = <<>> /\ merged = <<>> /\ decoded = idleContainer
    /\ deadline = NoDeadline
    /\ encoded = idleEncoded
    /\ found = NPOS
    /\ distance = 0
    /\ searched = <<>>
    /\ score = idleScore
    /\ outOfRange = FALSE

\* diff_fromDelta(text1, delta) through the wrapper.
FromDeltaText ==
    /\ pc = "text"
    /\ \E r \in {diff_fromDelta(text1, delta)} : decoded' = container(r.ok, r.diffs)
    /\ pc' = "delta_read"
    /\ UNCHANGED <<settings, text1, text2, diffs, patches, target, ap, result, ptext, parsed,
                   script, merged, delta, deadline, encoded, found, distance, searched,
                   score, outOfRange>>

\* diff_linesToChars(text1, text2): text1 is encoded up to the first cap and
\* text2, over the same table, up to the second.
LinesToChars ==
    /\ pc = "lines"
    /\ \E caps \in LineCaps :
           \E m1 \in {diff_linesToCharsMunge(text1, <<>>, caps[1])} :
               \E m2 \in {diff_linesToCharsMunge(text2, m1.lineHash, caps[2])} :
                   encoded' = [chars1 |-> m1.encoded, chars2 |-> m2.encoded,
                               lines |-> m2.lineHash]
    /\ pc' = "encoded"
    /\ UNCHANGED <<settings, text1, text2, diffs, patches, target, ap, result, ptext, parsed,
                   script, merged, delta, decoded, deadline, found, distance, searched,
                   score, outOfRange>>

\* diff_charsToLines on a script that deletes the first encoded string and
\* inserts the second, over the table diff_linesToChars returned.
CharsToLines ==
    /\ pc = "encoded"
    /\ diffs' = diff_charsToLines(<<diff_t(DELETE, encoded.chars1),
                                    diff_t(INSERT, encoded.chars2)>>, encoded.lines)
    /\ pc' = "lines_decoded"
    /\ UNCHANGED <<settings, text1, text2, patches, target, ap, result, ptext, parsed,
                   script, merged, delta, decoded, deadline, encoded, found, distance,
                   searched, score, outOfRange>>

TextNext == FromDeltaText \/ PatchFromText \/ LinesToChars \/ CharsToLines

TextSpec == TextInit /\ [][TextNext]_vars

(***************************************************************************)
(* Properties.                                                             *)
(***************************************************************************)
allTrue(flags) == \A i \in 1..Len(flags) : flags[i]

lengthsAgree(p) ==
    /\ p.length1 = Len(diff_text1(p.diffs))
    /\ p.length2 = Len(diff_text2(p.diffs))

\* C1: for all texts a and b, patch_apply(patch_make(a, b), a) returns
\* exactly b as the new text and every result flag is true (so both calls
\* return).
C1_MakeThenApplyGivesB ==
    /\ pc # "make_hung"
    /\ (pc = "apply_hung" => target # text1)
    /\ (pc = "applied" /\ target = text1 => result.text2 = text2 /\ allTrue(result.results))

\* C2: whatever checklines is and whether or not the deadline fires, the
\* script diff_main(a, b) returns is an edit script from a to b: its
\* non-INSERT texts concatenate to a and its non-DELETE texts to b.
C2_DiffMainIsEditScript ==
    pc = "diffed" => diff_text1(diffs) = text1 /\ diff_text2(diffs) = text2

\* diff_main has returned a script with a deletion and an insertion for two
\* texts of more than 100 characters.
C2_Witness ==
    /\ pc = "diffed" /\ text1 = LongA /\ text2 = LongC
    /\ \E i, j \in 1..Len(diffs) : diffs[i].operation = DELETE /\ diffs[j].operation = INSERT

\* C3: patch_fromText(patch_toText(P)) returns a patch list equal to P: the
\* same number of patches, each with the same coordinates and diffs.
C3_FromTextInvertsToText ==
    /\ pc # "parse_hung"
    /\ (pc = "parsed" => containerSize(parsed) = Len(patches) /\ containerEquals(parsed, patches))

\* C4: diff_fromDelta(diff_text1(d), diff_toDelta(d)) returns a script equal
\* to d entry for entry.
C4_FromDeltaInvertsToDelta ==
    pc = "decoded" => containerEquals(decoded, script)

\* C5: patch_apply does not fail on a patch that does not match: when no
\* location is found for a patch its flag is set to false, the working text
\* is left as it was, the loop goes on to the next patch, and the call
\* returns one flag for every patch it went through.
C5_UnmatchedPatchCarriesOn ==
    [][/\ (pc = "applying" /\ pc' = "applying") =>
             /\ ap'.x = ap.x + 1
             /\ Len(ap'.results) = ap'.x
             /\ ap'.patches = ap.patches
             /\ (applyWhere(settings, ap).start_loc = NPOS =>
                     ~ap'.results[ap'.x] /\ ap'.text = ap.text)
             /\ (~ap'.results[ap'.x] => ap'.text = ap.text)
       /\ (pc = "applying" /\ pc' = "applied") =>
             /\ ap.x = Len(ap.patches)
             /\ result'.results = ap.results]_vars

\* patch_apply has returned after a patch that was not found and a later
\* patch that was.
C5_Witness ==
    /\ pc = "applied"
    /\ \E i, j \in 1..Len(result.results) : i < j /\ ~result.results[i] /\ result.results[j]

C7_LengthsAgree ==
    /\ (pc \in {"made", "split"} => \A i \in 1..Len(patches) : lengthsAgree(patches[i]))
    /\ (pc \in {"padded", "applying"} =>
            \A i \in 1..Len(ap.patches) : lengthsAgree(ap.patches[i]))

\* patch_addPadding and patch_splitMax have run on a list and the split has
\* made it longer.
C7_Witness ==
    pc = "applying" /\ Len(ap.patches) > Len(patches)

\* C8: for every patch p of patch_make(text1, text2), diff_text1(p.diffs) is
\* the substring of text1 at [start1, start1 + length1) and
\* diff_text2(p.diffs) the substring of text2 at [start2, start2 + length2).
C8_StartsLocateThePatch ==
    pc = "made" =>
        \A i \in 1..Len(patches) :
            LET p == patches[i]
            IN  /\ p.start1 + p.length1 <= Len(text1)
                /\ p.start2 + p.length2 <= Len(text2)
                /\ diff_text1(p.diffs) = substring(text1, p.start1, p.length1)
                /\ diff_text2(p.diffs) = substring(text2, p.start2, p.length2)

C10_NoAdjacentSameOperation ==
    pc = "merged" =>
        \A i \in 1..(Len(merged) - 1) : merged[i].operation # merged[i + 1].operation

\* C11: after diff_cleanupMerge returns, a DELETE and an INSERT that are
\* adjacent in the script (in either order) have no common prefix and no
\* common suffix.
C11_NoSharedPrefixOrSuffix ==
    pc = "merged" =>
        \A i \in 1..(Len(merged) - 1) :
            {merged[i].operation, merged[i + 1].operation} = {DELETE, INSERT} =>
                /\ diff_commonPrefix(merged[i].text, merged[i + 1].text) = 0
                /\ diff_commonSuffix(merged[i].text, merged[i + 1].text) = 0

\* diff_cleanupMerge has returned a script with an adjacent DELETE and INSERT
\* for an input whose deletion and insertion began with the same character.
C11_Witness ==
    /\ pc = "merged"
    /\ \E i \in 1..(Len(script) - 1) :
           /\ script[i].operation = DELETE /\ script[i + 1].operation = INSERT
           /\ diff_commonPrefix(script[i].text, script[i + 1].text) > 0
    /\ \E i \in 1..(Len(merged) - 1) :
           merged[i].operation = DELETE /\ merged[i + 1].operation = INSERT

\* C12: after diff_cleanupMerge returns, no EQUAL entry of the script has an
\* empty text.
C12_NoEmptyEqual ==
    pc = "merged" =>
        \A i \in 1..Len(merged) : merged[i].operation = EQUAL => Len(merged[i].text) # 0

\* The tokens of a delta: the runs of characters between tabs.
RECURSIVE deltaTokens(_)
deltaTokens(d) ==
    IF indexOf(d, <<tab>>, 0) = NPOS THEN <<d>>
    ELSE <<substring(d, 0, indexOf(d, <<tab>>, 0))>>
         \o deltaTokens(substringFrom(d, indexOf(d, <<tab>>, 0) + 1))

isHexDigit(c) == (c >= 48 /\ c <= 57) \/ (c >= 65 /\ c <= 70) \/ (c >= 97 /\ c <= 102)

\* A decimal number: an optional sign and then one or more of the digits 0..9.
isNumber(str) ==
    LET body == IF str # <<>> /\ Head(str) \in {43, 45} THEN Tail(str) ELSE str
    IN  body # <<>> /\ \A i \in 1..Len(body) : body[i] >= 48 /\ body[i] <= 57

RECURSIVE decimalValue(_)
decimalValue(str) ==
    IF str = <<>> THEN 0
    ELSE IF Head(str) = 45 THEN 0 - decimalValue(Tail(str))
    ELSE IF Head(str) = 43 THEN decimalValue(Tail(str))
    ELSE decimalValue(SubSeq(str, 1, Len(str) - 1)) * 10 + (str[Len(str)] - 48)

\* A '%' that is not followed by two hexadecimal digits.
hasBadEscape(str) ==
    \E i \in 1..Len(str) :
        /\ str[i] = 37
        /\ ~(i + 2 <= Len(str) /\ isHexDigit(str[i + 1]) /\ isHexDigit(str[i + 2]))

\* The count of a '=' or '-' token is not a number or is negative.
hasBadCount(token) ==
    /\ token # <<>> /\ token[1] \in {61, 45}
    /\ (~isNumber(Tail(token)) \/ decimalValue(Tail(token)) < 0)

RECURSIVE consumedLength(_)
consumedLength(tokens) ==
    IF tokens = <<>> THEN 0
    ELSE (IF Head(tokens) # <<>> /\ Head(tokens)[1] \in {61, 45}
          THEN decimalValue(Tail(Head(tokens))) ELSE 0)
         + consumedLength(Tail(tokens))

\* C13: diff_fromDelta(text1, delta) reports failure whenever a '=' or '-'
\* token's count is not a number or is negative, a '+' token's payload has a
\* malformed percent-escape, a token begins with a character other than '+',
\* '-' and '=', or the counts of the '=' and '-' tokens do not add up to
\* the length of text1.
C13_InvalidDeltaFails ==
    pc = "delta_read" =>
        \A tokens \in {deltaTokens(delta)} :
            (\/ \E i \in 1..Len(tokens) : hasBadCount(tokens[i])
             \/ \E i \in 1..Len(tokens) :
                    /\ tokens[i] # <<>> /\ tokens[i][1] = 43
                    /\ hasBadEscape(Tail(tokens[i]))
             \/ \E i \in 1..Len(tokens) : tokens[i] # <<>> /\ tokens[i][1] \notin {43, 45, 61}
             \/ (/\ \A i \in 1..Len(tokens) : ~hasBadCount(tokens[i])
                 /\ consumedLength(tokens) # Len(text1)))
            => decoded.null

\* The lines of a text, each ended by a newline.
RECURSIVE textLines(_)
textLines(t) ==
    IF t = <<>> THEN <<>>
    ELSE IF indexOf(t, <<eol>>, 0) = NPOS THEN <<t>>
    ELSE <<substring(t, 0, indexOf(t, <<eol>>, 0))>>
         \o textLines(substringFrom(t, indexOf(t, <<eol>>, 0) + 1))

allDigits(str) == \A i \in 1..Len(str) : str[i] >= 48 /\ str[i] <= 57

\* <digits>[,<digits>]
isCoordinates(str) ==
    \E k \in 1..Len(str) :
        /\ allDigits(SubSeq(str, 1, k))
        /\ \/ k = Len(str)
           \/ k + 1 < Len(str) /\ str[k + 1] = 44 /\ allDigits(SubSeq(str, k + 2, Len(str)))

\* <digits>, then optionally a comma, then optionally <digits>
isCoordinatesOrComma(str) ==
    \/ isCoordinates(str)
    \/ Len(str) >= 2 /\ str[Len(str)] = 44 /\ allDigits(SubSeq(str, 1, Len(str) - 1))

\* @@ -<old> +<new> @@ with coordinates of the form Coordinates
isHeader(line, Coordinates(_)) ==
    /\ Len(line) >= 9
    /\ SubSeq(line, 1, 4) = <<64, 64, 32, 45>>
    /\ SubSeq(line, Len(line) - 2, Len(line)) = <<32, 64, 64>>
    /\ \E i \in 5..(Len(line) - 4) :
           /\ line[i] = 32 /\ line[i + 1] = 43
           /\ Coordinates(SubSeq(line, 5, i - 1))
           /\ Coordinates(SubSeq(line, i + 2, Len(line) - 3))

\* The first line of a patch text and every line that begins with '@' is a
\* header line; the others are body lines.
isHeaderLine(lines, i) == i = 1 \/ (lines[i] # <<>> /\ lines[i][1] = 64)

\* Line i is a header line that does not have the form, or a body line
\* with an unknown sign or a malformed percent-escape.
isBadLine(lines, i, Coordinates(_)) ==
    IF isHeaderLine(lines, i) THEN ~isHeader(lines[i], Coordinates)
    ELSE /\ lines[i] # <<>>
         /\ (lines[i][1] \notin {32, 43, 45} \/ hasBadEscape(Tail(lines[i])))

\* The patches that are complete before line i.
patchesBefore(lines, i) ==
    Cardinality({j \in 1..(i - 1) : isHeaderLine(lines, j)})
    - (IF isHeaderLine(lines, i) THEN 0 ELSE 1)

C15_DeadlineFallsBack ==
    /\ pc = "bisected" =>
           \A p \in {diff_bisectPoint(text1, text2, deadline)} :
               (p.fired \/ ~p.found) => diffs = <<diff_t(DELETE, text1), diff_t(INSERT, text2)>>
    /\ (pc = "diffed" /\ deadline # NoDeadline) =>
           /\ diff_text1(diffs) = text1 /\ diff_text2(diffs) = text2
           /\ \A i \in 1..Len(diffs) : diffs[i].operation \in Operation /\ diffs[i].text # <<>>

\* diff_bisect has returned after a deadline check that was not its first
\* found the deadline passed.
C15_Witness ==
    /\ pc = "bisected" /\ deadline = 1
    /\ diff_bisectPoint(text1, text2, deadline).fired
    /\ diffs = <<diff_t(DELETE, text1), diff_t(INSERT, text2)>>

\* C16: every call of a cleanup function on a finite diff script returns;
\* for diff_cleanupMerge, no call ends in its second pass running off the
\* list.
C16_CleanupReturns ==
    pc # "merge_crashed"

\* C17: patch_apply leaves the caller's patch list unchanged: no step of the
\* call (the padding of the copy, its splitting, the loop over the patches,
\* the return) changes a start, a length or a diff of the list it was handed.
C17_ApplyKeepsCallerList ==
    [][pc' \in {"padded", "applying", "apply_hung", "applied"} => patches' = patches]_vars
\* patch_apply has returned, and its working copy was padded and split into
\* more patches than the caller's list has.
C17_Witness ==
    pc = "applied" /\ Len(patches) > 0 /\ Len(ap.patches) > Len(patches)

\* C18: line encoding is reversible: diff_charsToLines over the line table
\* that diff_linesToChars returned turns the two encoded strings back into
\* text1 and text2, also when the distinct lines exceed a cap and the rest of
\* a text is stored as one final entry.
C18_LinesRoundTrip ==
    pc = "lines_decoded" => diffs = <<diff_t(DELETE, text1), diff_t(INSERT, text2)>>
\* Decoded, and the table has an entry that holds more than one line: a cap
\* was exceeded.
C18_Witness ==
    /\ pc = "lines_decoded"
    /\ \E i \in 1..Len(encoded.lines) :
           \E j \in 1..(Len(encoded.lines[i]) - 1) : encoded.lines[i][j] = eol

\* C19 (as stated): match_main returns NotFound whenever the text is empty,
\* for every pattern and every loc.
C19_EmptyTextNotFound ==
    pc = "matched" /\ text1 = <<>> => found = NPOS
\* C19 (amended): on an empty text match_main returns NotFound for every
\* non-empty pattern and every loc, and 0 for the empty pattern.
C19_EmptyTextNotFoundOrEqual ==
    pc = "matched" /\ text1 = <<>> => found = IF text2 = <<>> THEN 0 ELSE NPOS
\* match_main has answered NotFound for a pattern on the empty text.
C19_Witness ==
    pc = "matched" /\ text1 = <<>> /\ text2 # <<>> /\ found = NPOS

\* C20 (as stated): diff_levenshtein is never negative, and it is zero if and
\* only if every entry of the script is an EQUAL.
C20_ZeroIffAllEqual ==
    pc = "measured" =>
        /\ distance >= 0
        /\ distance = 0 <=> \A i \in 1..Len(script) : script[i].operation = EQUAL
\* C20 (amended): diff_levenshtein is never negative, and it is zero if and
\* only if every INSERT and DELETE of the script has an empty text.
C20_ZeroIffNothingEdited ==
    pc = "measured" =>
        /\ distance >= 0
        /\ distance = 0 <=>
               \A i \in 1..Len(script) : script[i].operation = EQUAL \/ script[i].text = <<>>
\* diff_levenshtein has returned zero for a script that holds an EQUAL and an
\* edit, which then has an empty text.
C20_Witness ==
    /\ pc = "measured"
    /\ \E i, j \in 1..Len(script) : script[i].operation = EQUAL /\ script[j].operation # EQUAL
    /\ distance = 0

\* The net length change of patch k of the working list.
netChange(k) == ap.patches[k].length2 - ap.patches[k].length1
RECURSIVE lostBefore(_)
\* The sum of the net length changes of the patches before j that were not found.
lostBefore(j) ==
    IF j <= 1 THEN 0
    ELSE lostBefore(j - 1)
         + (IF searched[j - 1].start_loc = NPOS THEN netChange(j - 1) ELSE 0)
\* Every patch before j that was found was found where it was expected.
exactBefore(j) ==
    \A m \in 1..(j - 1) :
        searched[m].start_loc = NPOS \/ searched[m].start_loc = searched[m].expected_loc

\* C21: in patch_apply, once a patch has failed to match, every later patch
\* is looked for at a location lowered by the failed patch's net length
\* change: when the patches found so far were found where they were expected,
\* patch j is expected at its start2 less the changes of the failed patches.
C21_LaterPatchesLowered ==
    \A j \in 1..Len(searched) :
        exactBefore(j) =>
            searched[j].expected_loc = max(0, ap.patches[j].start2 - lostBefore(j))

\* Body line k of the first patch of ptext, when the lines up to it are
\* body lines that are not blank; <<>> otherwise.
bodyLine(k) ==
    the({IF k + 1 <= Len(lines) /\ \A j \in 2..(k + 1) : lines[j] # <<>> /\ lines[j][1] # 64
         THEN lines[k + 1] ELSE <<>> : lines \in {textLines(ptext)}})
\* C22 (as stated): when patch_fromText decodes a body line, each literal
\* '+' of the body text is decoded to a space: the text of a line without
\* escapes is parsed into that text with spaces for its '+'.
C22_PlusBecomesSpace ==
    pc = "parsed" /\ Len(parsed.elements) >= 1 =>
        \A k \in 1..Len(parsed.elements[1].diffs) :
            \A line \in {bodyLine(k)} :
                (line # <<>> /\ \A i \in 2..Len(line) : line[i] # 37)
                => parsed.elements[1].diffs[k].text
                   = [i \in 1..(Len(line) - 1) |-> IF line[i + 1] = 43 THEN 32 ELSE line[i + 1]]
\* C22 (amended): when patch_fromText decodes a body line, each literal '+'
\* of the body text stays a '+': the text of a line without escapes is
\* parsed into that text unchanged.
C22_PlusStaysPlus ==
    pc = "parsed" /\ Len(parsed.elements) >= 1 =>
        \A k \in 1..Len(parsed.elements[1].diffs) :
            \A line \in {bodyLine(k)} :
                (line # <<>> /\ \A i \in 2..Len(line) : line[i] # 37)
                => parsed.elements[1].diffs[k].text = Tail(line)
\* patch_fromText has returned a patch with a diff whose body text had a '+'.
C22_Witness ==
    /\ pc = "parsed" /\ Len(parsed.elements) >= 1
    /\ \E k \in 1..Len(parsed.elements[1].diffs) :
           \E i \in 2..Len(bodyLine(k)) : bodyLine(k)[i] = 43

\* The distance between the candidate's position and the expected one.
scoreProximity == IF score.loc >= score.x THEN score.loc - score.x ELSE score.x - score.loc
\* C23 (as stated): the bitap score is e/|pattern| + |x - loc|/Match_Distance,
\* and with Match_Distance = 0 it is 0 if x = loc and 1 otherwise.  (The
\* score is the fraction value[1]/value[2].)
C23_ScoreZeroAtLoc ==
    pc = "scored" =>
        IF settings.Match_Distance = 0
        THEN score.value[1] = (IF score.x = score.loc THEN 0 ELSE score.value[2])
        ELSE score.value[1] * Len(text2) * settings.Match_Distance
             = (score.e * settings.Match_Distance + scoreProximity * Len(text2))
               * score.value[2]
\* C23 (amended): the bitap score is e/|pattern| + |x - loc|/Match_Distance,
\* and with Match_Distance = 0 it is e/|pattern| if x = loc and 1 otherwise.
C23_ScoreAccuracyAtLoc ==
    pc = "scored" =>
        IF settings.Match_Distance = 0
        THEN IF score.x = score.loc
             THEN score.value[1] * Len(text2) = score.e * score.value[2]
             ELSE score.value[1] = score.value[2]
        ELSE score.value[1] * Len(text2) * settings.Match_Distance
             = (score.e * settings.Match_Distance + scoreProximity * Len(text2))
               * score.value[2]
\* A candidate with errors was scored at the expected position with
\* Match_Distance = 0.
C23_Witness ==
    pc = "scored" /\ settings.Match_Distance = 0 /\ score.x = score.loc /\ score.e > 0

\* The longest suffix of a that is a prefix of b.
overlapOf(a, b) ==
    CHOOSE n \in 0..min(Len(a), Len(b)) :
        /\ SubSeq(a, Len(a) - n + 1, Len(a)) = SubSeq(b, 1, n)
        /\ \A m \in (n + 1)..min(Len(a), Len(b)) :
               SubSeq(a, Len(a) - m + 1, Len(a)) # SubSeq(b, 1, m)
\* The overlap in the chosen direction: the longer of the two.
chosenOverlap(deletion, insertion) ==
    max(overlapOf(deletion, insertion), overlapOf(insertion, deletion))
\* The script is a deletion followed by an insertion and diff_cleanupSemantic
\* has been called on it.
overlapCase ==
    /\ pc = "semantic" /\ Len(script) = 2
    /\ script[1].operation = DELETE /\ script[2].operation = INSERT
\* The pair was split into trimmed edits around a new EQUAL.
wasSplit == Len(merged) = 3 /\ merged[2].operation = EQUAL

\* C24 (as stated): the overlap pass splits a DELETE followed by an INSERT
\* around a new EQUAL exactly when the overlap is at least half the length of
\* the deletion and at least half the length of the insertion.
C24_SplitIffHalfOfBoth ==
    overlapCase =>
        (wasSplit <=>
            /\ 2 * chosenOverlap(script[1].text, script[2].text) >= Len(script[1].text)
            /\ 2 * chosenOverlap(script[1].text, script[2].text) >= Len(script[2].text))
\* C24 (amended): the overlap pass splits a DELETE followed by an INSERT
\* around a new EQUAL exactly when the overlap is at least half the length of
\* the deletion or at least half the length of the insertion.
C24_SplitIffHalfOfEither ==
    overlapCase =>
        (wasSplit <=>
            \/ 2 * chosenOverlap(script[1].text, script[2].text) >= Len(script[1].text)
            \/ 2 * chosenOverlap(script[1].text, script[2].text) >= Len(script[2].text))
\* A pair was split whose overlap is at least half of one edit only.
C24_Witness ==
    /\ overlapCase /\ wasSplit
    /\ chosenOverlap(script[1].text, script[2].text) > 0
    /\ 2 * chosenOverlap(script[1].text, script[2].text) < Len(script[2].text)

\* A patch that is leading context followed by one deletion of more than
\* 2 * Match_MaxBits characters (and the context after it).
isBigDeletion(p) ==
    /\ Len(p.diffs) \in {2, 3}
    /\ p.diffs[1].operation = EQUAL
    /\ p.diffs[2].operation = DELETE /\ Len(p.diffs[2].text) > 2 * settings.Match_MaxBits
    /\ Len(p.diffs) = 3 => p.diffs[3].operation = EQUAL
\* Every patch of the list fits the bitap word or is a big deletion.
allFit(ps) ==
    \A i \in 1..Len(ps) : ps[i].length1 <= settings.Match_MaxBits \/ isBigDeletion(ps[i])

\* C25: after patch_splitMax every patch of the list has length1 <=
\* Match_MaxBits, except the patches that are leading context followed by one
\* deletion longer than 2 * Match_MaxBits, which are left unsplit.  (The list
\* the client split, and the working list of patch_apply after its split.)
C25_SplitPatchesFit ==
    /\ pc = "split" => allFit(patches)
    /\ pc = "applying" => allFit(ap.patches)
\* patch_apply has split its working list, and the split has left a big
\* deletion unsplit.
C25_Witness ==
    /\ pc = "applying"
    /\ \E i \in 1..Len(ap.patches) :
           ap.patches[i].length1 > settings.Match_MaxBits /\ isBigDeletion(ap.patches[i])

\* C26: patch_fromText reports success (a list that is not null) for every
\* well-formed patch text; here, for the text patch_toText made of a
\* non-empty patch list.
C26_WellFormedTextParses ==
    (pc \in {"parsed", "parse_hung"} /\ Len(patches) > 0) => (pc = "parsed" /\ ~parsed.null)

\* C27: patch_fromText returns on every text, well formed or not, whether or
\* not body lines follow its last header.
C27_FromTextReturns ==
    pc \notin {"parse_hung"}

\* C28: each cleanup (diff_cleanupMerge, diff_cleanupSemantic,
\* diff_cleanupSemanticLossless, diff_cleanupEfficiency) preserves both
\* texts: diff_text1 and diff_text2 of the script it returns are those of
\* the script it was called on.
C28_CleanupKeepsTexts ==
    pc \in {"merged", "semantic", "lossless", "efficient"} =>
        /\ diff_text1(merged) = diff_text1(script)
        /\ diff_text2(merged) = diff_text2(script)

\* diff_cleanupEfficiency has replaced an equality between edits by a
\* deletion and an insertion: the script it returns has no EQUAL left, the
\* script it was called on had one.
C28_Witness ==
    /\ pc = "efficient" /\ merged # script
    /\ \E i \in 1..Len(script) : script[i].operation = EQUAL
    /\ \A i \in 1..Len(merged) : merged[i].operation # EQUAL

\* C29: patch_splitMax terminates for every patch list and all settings
\* with 0 < Patch_Margin < Match_MaxBits, called by the client or by
\* patch_apply.
C29_SplitMaxReturns ==
    (0 < settings.Patch_Margin /\ settings.Patch_Margin < settings.Match_MaxBits)
    => pc \notin {"split_hung", "apply_hung"}

\* C30: on every pair of texts on which diff_main reaches diff_bisect, and
\* on every pair diff_bisect is called on as diff_compute calls it, every
\* read and write of the frontier arrays v1 and v2 uses an index in
\* 0 .. 2 * max_d - 1.
C30_FrontierInRange ==
    pc \in {"diffed", "bisected"} => ~outOfRange
\* diff_main has returned from a call that reached diff_bisect: no half
\* match was tried (Diff_Timeout = 0), the texts have two characters or more,
\* no common prefix or suffix, and neither contains the other.
C30_Witness ==
    /\ pc = "diffed" /\ ~outOfRange
    /\ settings.Diff_Timeout = 0
    /\ Len(text1) >= 2 /\ Len(text2) >= 2
    /\ diff_commonPrefix(text1, text2) = 0 /\ diff_commonSuffix(text1, text2) = 0
    /\ indexOf(text1, text2, 0) = NPOS /\ indexOf(text2, text1, 0) = NPOS
    /\ \E i, j \in 1..Len(diffs) : diffs[i].operation = DELETE /\ diffs[j].operation = INSERT

====
